---- MODULE Spec2Model ----
(***************************************************************************)
(* Model of the refinement core of factbook_scraper:                       *)
(*   refiners/multi_value_splitter.py  (is_multi_valued, split_values,     *)
(*                                      refine_field, refine_country,      *)
(*                                      process_all_countries)             *)
(*   refiners/category_enricher.py     (enrich_with_categories,            *)
(*                                      refine_country,                    *)
(*                                      process_all_countries)             *)
(*   refiners/year_extractor.py        (extract_year_smart and the         *)
(*                                      per-entry variants)                *)
(*   analyzers/field_discovery.py      (build_field_registry,              *)
(*                                      calculate_coverage,                *)
(*                                      generate_summary_statistics)       *)
(*   exporters/xlsx_exporter.py        (flatten_to_rows)                   *)
(*   main.py                           (run_refinement_pipeline)           *)
(*   scrapers/fetcher.py               (fetch_page_data)                   *)
(*                                                                         *)
(* Python values are tagged records: a str is [t |-> "str", s |-> chars],  *)
(* None is [t |-> "none"], an int is [t |-> "int", n |-> n], a list is     *)
(* [t |-> "list", l |-> items] and a dict is [t |-> "dict", d |-> f] with  *)
(* f a function from the keys that are present to their values.            *)
(***************************************************************************)
EXTENDS Integers, Sequences, FiniteSets, TLC

VARIABLES
    data,           \* argument handed to is_multi_valued / split_values
    called,         \* the splitter functions that have been called on data
    multi_out,      \* result of is_multi_valued(data)
    split_out,      \* result of split_values(data)
    field,          \* argument handed to refine_field
    rf_pc,          \* "start" | "returned" | "raised"
    rf_again,       \* refine_field applied to its own output (None before)
    rf_out,         \* the refined field refine_field returned
    country_data,   \* argument handed to the splitter's refine_country
    rc_pc,          \* "start" | "returned" | "raised"
    rc_valid,       \* what validate_refined_structure said (None before)
    rc_out,         \* the refined structure refine_country returned
    category_mapping, \* the database_id -> category table of the run
    e_country,      \* the object handed to the enricher's refine_country
    e_pc,           \* "start" | "returned" | "raised"
    e_out,          \* the value the enricher's refine_country returned
    e_same,         \* whether the returned object is the object e_country
    e_fields,       \* enriched_fields as built by enrich_with_categories
    stage,          \* whose process_all_countries runs: "split" | "enrich"
    country_files,  \* the list load_country_files returned
    batch_i,        \* position of the "for country_data" loop (1-based)
    batch_pc,       \* "start" | "loop" | "done" | "raised"
    batch_error,    \* the exception that left process_all_countries
    processing_stats, \* the statistics dict of process_all_countries
    out_files,      \* the files of output_dir: file name -> saved data
    y_value,        \* argument handed to extract_year_smart
    y_pc,           \* "start" | "called" | "again"
    y_out,          \* result of extract_year_smart(y_value)
    y_again,        \* result of extract_year_smart(y_out)
    ye_kind,        \* which per-entry variant of the year extractor runs
    ye_in,          \* the entries handed to it
    ye_pc,          \* "start" | "returned"
    ye_out,         \* the entries it returned
    country_data_list, \* the wrapped records load_country_files returned
    catalog_pc,     \* "empty" | "built"
    field_registry, \* the registry of the last discover_fields run
    summary,        \* coverage_distribution of the last discover_fields run
    cov_pc,         \* "start" | "returned" | "raised"
    cov_total,      \* total_countries handed to calculate_coverage
    cov_out,        \* the registry calculate_coverage returned
    fl_country,     \* argument handed to flatten_to_rows
    fl_pc,          \* "start" | "returned" | "raised"
    fl_rows,        \* the rows flatten_to_rows returned
    pipe_pc,        \* run_refinement_pipeline: "start" | "categories" |
                    \* "multi-value" | "done" | "raised"
    steps_to_run,   \* the steps of the run
    raw_dir,        \* the records of the files of raw/, in listing order
    f_pc,           \* fetch_page_data: "loop" | "returned"
    max_retries,    \* retries or config['retry_attempts']
    base_delay,     \* delay or config['retry_delay']
    rate_limit_delay, \* config['rate_limit_delay']
    attempt,        \* the loop variable of "for attempt in range(...)"
    f_last,         \* what the last attempt met (None before the first)
    f_sleeps,       \* the seconds of every time.sleep call, in order
    f_result        \* what fetch_page_data returned

splitVars == <<data, called, multi_out, split_out>>
fieldVars == <<field, rf_pc, rf_out, rf_again>>
countryVars == <<country_data, rc_pc, rc_out, rc_valid>>
enrichVars == <<category_mapping, e_country, e_pc, e_out, e_same, e_fields>>

batchVars == <<stage, country_files, batch_i, batch_pc, batch_error,
               processing_stats, out_files>>

yearVars == <<y_value, y_pc, y_out, y_again>>
entryVars == <<ye_kind, ye_in, ye_pc, ye_out>>
catalogVars == <<country_data_list, catalog_pc, field_registry, summary,
                 cov_pc, cov_total, cov_out>>
flattenVars == <<fl_country, fl_pc, fl_rows>>
analysisVars == <<yearVars, entryVars, catalogVars, flattenVars>>
pipeVars == <<pipe_pc, steps_to_run, raw_dir>>
fetchVars == <<f_pc, max_retries, base_delay, rate_limit_delay, attempt,
               f_last, f_sleeps, f_result>>
runVars == <<pipeVars, fetchVars>>

vars == <<splitVars, fieldVars, countryVars, enrichVars, batchVars,
          analysisVars, runVars>>

(***************************************************************************)
(* Bounds                                                                  *)
(***************************************************************************)
MaxChunks == 3
MaxFields == 3
MaxEnrichFields == 2
MaxCountries == 2
MaxYearChunks == 3
MaxYearEntries == 2
MaxRecords == 3
MaxFlattenFields == 2
MaxRetries == 3

(***************************************************************************)
(* Python values                                                           *)
(***************************************************************************)
None == [t |-> "none"]
PyStr(s) == [t |-> "str", s |-> s]
PyInt(n) == [t |-> "int", n |-> n]
PyBool(b) == [t |-> "bool", b |-> b]
PyList(l) == [t |-> "list", l |-> l]
PyDict(d) == [t |-> "dict", d |-> d]

\* a text made of one opaque word (a name, an id, a label): a str whose
\* only element is the word, so it holds no break marker and no whitespace
Word(w) == PyStr(<<w>>)

\* marks a key that a dict does not have, while the dict is being built
Absent == [t |-> "absent"]

\* the dict that has the keys of f whose value is not Absent
MkDict(f) == PyDict([k \in { x \in DOMAIN f : f[x] # Absent } |-> f[k]])

EmptyDict == PyDict([k \in {} |-> None])

IsDict(v) == v.t = "dict"
IsList(v) == v.t = "list"

\* d.get(key, default) of a dict d
Get(d, key, default) == IF key \in DOMAIN d.d THEN d.d[key] ELSE default

\* d after d[key] = v
DictSet(d, key, v) ==
    PyDict([k \in DOMAIN d.d \cup {key} |-> IF k = key THEN v ELSE d.d[k]])

\* a float with one decimal, held as its number of tenths
PyTenths(n) == [t |-> "float", tenths |-> n]

\* bool(v): the truth value Python gives v in "if v" / "not v"
Truthy(v) ==
    CASE v.t = "none" -> FALSE
      [] v.t = "str"  -> Len(v.s) > 0
      [] v.t = "int"  -> v.n # 0
      [] v.t = "bool" -> v.b
      [] v.t = "list" -> Len(v.l) > 0
      [] v.t = "dict" -> DOMAIN v.d # {}
      [] v.t = "float" -> v.tenths # 0
      [] OTHER        -> TRUE

\* isinstance(v, str)
IsStr(v) == v.t = "str"

(***************************************************************************)
(* Characters                                                              *)
(***************************************************************************)
\* characters for which str.isspace() holds and which \s matches
IsSpace(c) == c \in {" ", "\t"}

\* re.IGNORECASE comparison of one pattern letter with one input character
LowerChar(c) == CASE c = "B" -> "b" [] c = "R" -> "r" [] OTHER -> c

(***************************************************************************)
(* BR_TAG_PATTERN = re.compile(r'<br\s*/?>', re.IGNORECASE)                *)
(***************************************************************************)
\* index of the first character at or after i that is not whitespace
\* (Len(s) + 1 when there is none): the greedy \s*
RECURSIVE SkipSpaces(_, _)
SkipSpaces(s, i) ==
    IF i <= Len(s) /\ IsSpace(s[i]) THEN SkipSpaces(s, i + 1) ELSE i

\* BR_TAG_PATTERN.match(s, i): index of the last character of the match
\* that starts at i, or 0 when the pattern does not match at i
BR_TAG_PATTERN_CaseSensitive(s, i) ==
    IF i + 3 > Len(s) \/ s[i] # "<" \/ s[i + 1] # "b" \/ s[i + 2] # "r"
    THEN 0
    ELSE LET k == SkipSpaces(s, i + 3)
             j == IF k <= Len(s) /\ s[k] = "/" THEN k + 1 ELSE k
         IN  IF j <= Len(s) /\ s[j] = ">" THEN j ELSE 0

BR_TAG_PATTERN(s, i) ==
    IF i + 3 > Len(s) \/ s[i] # "<"
       \/ LowerChar(s[i + 1]) # "b" \/ LowerChar(s[i + 2]) # "r"
    THEN 0
    ELSE LET k == SkipSpaces(s, i + 3)
             j == IF k <= Len(s) /\ s[k] = "/" THEN k + 1 ELSE k
         IN  IF j <= Len(s) /\ s[j] = ">" THEN j ELSE 0

\* BR_TAG_PATTERN.findall(s): the matches, leftmost first, non-overlapping
RECURSIVE FindAllFrom(_, _)
FindAllFrom(s, i) ==
    IF i > Len(s) THEN <<>>
    ELSE LET e == BR_TAG_PATTERN(s, i)
         IN  IF e = 0 THEN FindAllFrom(s, i + 1)
             ELSE <<SubSeq(s, i, e)>> \o FindAllFrom(s, e + 1)

findall(s) == FindAllFrom(s, 1)

\* BR_TAG_PATTERN.split(s): the text between the matches, from the
\* piece that starts at index from; i is the scan position
RECURSIVE SplitFrom(_, _, _)
SplitFrom(s, from, i) ==
    IF i > Len(s) THEN <<SubSeq(s, from, Len(s))>>
    ELSE LET e == BR_TAG_PATTERN(s, i)
         IN  IF e = 0 THEN SplitFrom(s, from, i + 1)
             ELSE <<SubSeq(s, from, i - 1)>> \o SplitFrom(s, e + 1, e + 1)

re_split(s) == SplitFrom(s, 1, 1)

\* str.strip()
strip_LeftOnly(s) ==
    LET ink == { i \in 1..Len(s) : ~IsSpace(s[i]) }
    IN  IF ink = {} THEN <<>>
        ELSE SubSeq(s, CHOOSE i \in ink : \A j \in ink : i <= j, Len(s))

RECURSIVE lstrip(_)
lstrip(s) == IF Len(s) > 0 /\ IsSpace(s[1]) THEN lstrip(Tail(s)) ELSE s

RECURSIVE rstrip(_)
rstrip(s) ==
    IF Len(s) > 0 /\ IsSpace(s[Len(s)])
    THEN rstrip(SubSeq(s, 1, Len(s) - 1)) ELSE s

strip(s) == rstrip(lstrip(s))

(***************************************************************************)
(* is_multi_valued, split_values                                           *)
(***************************************************************************)
is_multi_valued(v) ==
    IF ~Truthy(v) \/ ~IsStr(v) THEN FALSE
    ELSE Len(findall(v.s)) >= 1

\* the cleaning loop of split_values over split_parts
CleanParts_KeepEmpty(parts) ==
    [k \in 1..Len(parts) |-> strip(parts[k])]

RECURSIVE CleanParts(_)
CleanParts(parts) ==
    IF parts = <<>> THEN <<>>
    ELSE LET cleaned == strip(Head(parts))
         IN  IF Len(cleaned) > 0
             THEN <<cleaned>> \o CleanParts(Tail(parts))
             ELSE CleanParts(Tail(parts))

split_values(v) ==
    IF ~Truthy(v) \/ ~IsStr(v) THEN <<>>
    ELSE CleanParts(re_split(v.s))

(***************************************************************************)
(* Inputs of the value splitter                                            *)
(***************************************************************************)
Chunks ==
    { <<"A">>, <<" ">>, <<"\t">>,
      <<"<", "b", "r", ">">>,
      <<"<", "B", "R", "/", ">">>,
      <<"<", "b", "r", " ", "/", ">">>,
      <<"<">>, <<"b", "r">>, <<"/">>, <<">">> }

RECURSIVE Concat(_)
Concat(ss) == IF ss = <<>> THEN <<>> ELSE Head(ss) \o Concat(Tail(ss))

ChunkSeqs == UNION { [1..n -> Chunks] : n \in 0..MaxChunks }

Texts == { Concat(cs) : cs \in ChunkSeqs }

SplitterInputs ==
    { PyStr(s) : s \in Texts }
        \cup { None, PyInt(5), PyList(<<PyStr(<<"<", "b", "r", ">">>)>>) }

(***************************************************************************)
(* refine_field                                                            *)
(***************************************************************************)
\* what a call gives back: a value, or an exception that leaves the call
Return(v) == [raised |-> FALSE, value |-> v]
Raise(e) == [raised |-> TRUE, error |-> e]

\* the values array: one {"value", "order"} dict per entry of values_list
values_array_OneBased(values_list) ==
    [i \in 1..Len(values_list) |->
        PyDict([value |-> values_list[i], order |-> PyInt(i)])]

values_array(values_list) ==
    [i \in 1..Len(values_list) |->
        PyDict([value |-> values_list[i], order |-> PyInt(i - 1)])]

\* values_list of refine_field for the data member data_content
values_list(data_content, multi_valued) ==
    IF multi_valued
    THEN [k \in 1..Len(split_values(data_content)) |->
             PyStr(split_values(data_content)[k])]
    ELSE IF Truthy(data_content) THEN <<data_content>> ELSE <<>>

\* refine_field with the subfields list rebuilt empty instead of copied
refine_field_DropSubfields(fld) ==
    IF ~IsDict(fld) THEN Raise("AttributeError")
    ELSE
    LET data_content == Get(fld, "data", PyStr(<<>>))
        multi_valued == is_multi_valued(data_content)
    IN  Return(PyDict(
          [name            |-> Get(fld, "name", PyStr(<<>>)),
           database_id     |-> Get(fld, "database_id", PyStr(<<>>)),
           category        |-> Get(fld, "category", PyStr(<<>>)),
           subfields       |-> PyList(<<>>),
           has_ranking     |-> Get(fld, "has_ranking", PyBool(FALSE)),
           is_multi_valued |-> PyBool(multi_valued),
           values          |->
               PyList(values_array(values_list(data_content,
                                               multi_valued)))]))

\* refine_field with the category member reset to null
refine_field_NullCategory(fld) ==
    IF ~IsDict(fld) THEN Raise("AttributeError")
    ELSE
    LET data_content == Get(fld, "data", PyStr(<<>>))
        multi_valued == is_multi_valued(data_content)
    IN  Return(PyDict(
          [name            |-> Get(fld, "name", PyStr(<<>>)),
           database_id     |-> Get(fld, "database_id", PyStr(<<>>)),
           category        |-> None,
           subfields       |-> Get(fld, "subfields", PyList(<<>>)),
           has_ranking     |-> Get(fld, "has_ranking", PyBool(FALSE)),
           is_multi_valued |-> PyBool(multi_valued),
           values          |->
               PyList(values_array(values_list(data_content,
                                               multi_valued)))]))

refine_field(fld) ==
    IF ~IsDict(fld) THEN Raise("AttributeError")     \* field.get
    ELSE
    LET data_content == Get(fld, "data", PyStr(<<>>))
        multi_valued == is_multi_valued(data_content)
    IN  Return(PyDict(
          [name            |-> Get(fld, "name", PyStr(<<>>)),
           database_id     |-> Get(fld, "database_id", PyStr(<<>>)),
           category        |-> Get(fld, "category", PyStr(<<>>)),
           subfields       |-> Get(fld, "subfields", PyList(<<>>)),
           has_ranking     |-> Get(fld, "has_ranking", PyBool(FALSE)),
           is_multi_valued |-> PyBool(multi_valued),
           values          |->
               PyList(values_array(values_list(data_content,
                                               multi_valued)))]))

(***************************************************************************)
(* refine_country (multi_value_splitter)                                   *)
(***************************************************************************)
\* the "for field in raw_fields" loop with its try/except, from item i on;
\* acc is refined_structure["data"]["fields"], count is multi_valued_count
RECURSIVE RefineFieldsLoop(_, _, _, _)
RefineFieldsLoop(items, i, acc, count) ==
    IF i > Len(items)
    THEN Return([fields |-> acc, multi_valued_count |-> count])
    ELSE LET r == refine_field(items[i])
         IN  IF ~r.raised
             THEN RefineFieldsLoop(items, i + 1, Append(acc, r.value),
                      IF r.value.d.is_multi_valued.b
                      THEN count + 1 ELSE count)
             \* except Exception: the handler logs field.get('name', ...)
             ELSE IF ~IsDict(items[i])
                  THEN Raise("AttributeError")
                  ELSE RefineFieldsLoop(items, i + 1, acc, count)

\* the time stamps and durations the code takes from the clock
Now == [t |-> "time"]

\* the text an f-string puts in for v
Format(v) == IF IsStr(v) THEN v.s ELSE <<v.t>>

refine_country(cd) ==
    IF ~IsDict(cd) THEN Raise("AttributeError")      \* country_data.get
    ELSE
    LET country_slug == Get(cd, "country_slug", PyStr(<<>>))
        raw_data == Get(cd, "data", EmptyDict)
    IN  IF ~IsDict(raw_data) THEN Raise("AttributeError") \* raw_data.get
        ELSE
        LET metadata == Get(raw_data, "metadata", EmptyDict)
            raw_fields == Get(raw_data, "fields", PyList(<<>>))
        IN  IF ~IsList(raw_fields) THEN Raise("TypeError") \* not iterable
            ELSE
            LET loop == RefineFieldsLoop(raw_fields.l, 1, <<>>, 0)
            IN  IF loop.raised THEN loop
                ELSE
                LET total_fields == Len(loop.value.fields)
                    multi == loop.value.multi_valued_count
                IN  Return(PyDict(
                      [country_slug |-> country_slug,
                       refined_at   |-> Now,
                       source_file  |->
                           PyStr(<<"raw/">> \o Format(country_slug)
                                     \o <<".json">>),
                       data |-> PyDict(
                           [metadata |-> metadata,
                            fields   |-> PyList(loop.value.fields)]),
                       statistics |-> PyDict(
                           [total_fields |-> PyInt(total_fields),
                            multi_valued_fields |-> PyInt(multi),
                            single_valued_fields |->
                                PyInt(total_fields - multi),
                            processing_duration_seconds |-> Now])]))

(***************************************************************************)
(* validate_refined_structure                                              *)
(***************************************************************************)
\* what a for loop (and len) can go over without the call answering
\* False: a list, or an empty text or record, which has no items; a
\* non-empty text or record yields texts, which fail the membership
\* tests, and any other value raises into the except branch
Iterable(v) == IsList(v) \/ v \in { PyStr(<<>>), EmptyDict }
ItemsOf(v) == IF IsList(v) THEN v.l ELSE <<>>

\* "for value_item in values": every item carries value and order; an
\* item that is not a record fails the membership test or raises, and
\* the except branch answers False as well
ValueItemsValid(items) ==
    \A k \in 1..Len(items) :
        /\ IsDict(items[k])
        /\ {"value", "order"} \subseteq DOMAIN items[k].d

\* the body of "for field in fields" for one field: FALSE is a
\* "return False" (or an exception caught by the except branch)
FieldValid_AllowEmpty(fld) ==
    /\ IsDict(fld)
    /\ "values" \in DOMAIN fld.d
    /\ Iterable(fld.d.values)
    /\ ValueItemsValid(ItemsOf(fld.d.values))
    /\ LET multi_valued == Truthy(Get(fld, "is_multi_valued", PyBool(FALSE)))
           values_length == Len(ItemsOf(fld.d.values))
       IN  /\ ~(multi_valued /\ values_length < 2)
           /\ ~(~multi_valued /\ values_length > 1)

FieldValid(fld) ==
    /\ IsDict(fld)
    /\ "values" \in DOMAIN fld.d
    /\ Iterable(fld.d.values)
    /\ ValueItemsValid(ItemsOf(fld.d.values))
    /\ LET multi_valued == Truthy(Get(fld, "is_multi_valued", PyBool(FALSE)))
           values_length == Len(ItemsOf(fld.d.values))
       IN  /\ ~(multi_valued /\ values_length < 2)
           /\ ~(~multi_valued /\ values_length # 1)

validate_refined_structure(refined_data) ==
    /\ IsDict(refined_data)
    /\ {"country_slug", "data", "statistics"} \subseteq DOMAIN refined_data.d
    /\ IsDict(refined_data.d.data)
    /\ {"metadata", "fields"} \subseteq DOMAIN refined_data.d.data.d
    /\ Iterable(refined_data.d.data.d.fields)
    /\ \A i \in 1..Len(ItemsOf(refined_data.d.data.d.fields)) :
          FieldValid(ItemsOf(refined_data.d.data.d.fields)[i])

(***************************************************************************)
(* Inputs of refine_field and refine_country                               *)
(***************************************************************************)
\* the members a raw field carries besides data
FieldShapes ==
    { [name |-> Word("GDP"), database_id |-> Word("208"),
       category |-> Word("Economy"),
       subfields |-> PyList(<<Word("2023")>>),
       has_ranking |-> PyBool(TRUE)],
      [name |-> Word("Area"), database_id |-> None,
       category |-> Absent, subfields |-> PyList(<<>>),
       has_ranking |-> PyBool(FALSE)],
      [name |-> Word("Pop"), database_id |-> Word("999"),
       category |-> None, subfields |-> PyList(<<>>),
       has_ranking |-> PyBool(FALSE)],
      [name |-> Absent, database_id |-> Absent, category |-> Absent,
       subfields |-> Absent, has_ranking |-> Absent] }

RawField(shape, d) ==
    MkDict([name |-> shape.name, database_id |-> shape.database_id,
            category |-> shape.category, subfields |-> shape.subfields,
            has_ranking |-> shape.has_ranking, data |-> d])

DataInputs == SplitterInputs \cup { Absent, PyInt(0) }

\* items of a fields list that are not records
NonRecords == { Word("oops"), None }

FieldInputs ==
    { RawField(sh, d) : sh \in FieldShapes, d \in DataInputs }
        \cup NonRecords

\* the items the fields list of a record is drawn from
FieldItems ==
    { RawField(CHOOSE sh \in FieldShapes : sh.name = Word("GDP"),
               PyStr(<<"A", "<", "b", "r", ">", "A">>)),
      RawField(CHOOSE sh \in FieldShapes : sh.name = Word("Area"),
               PyStr(<<"A">>)),
      RawField(CHOOSE sh \in FieldShapes : sh.name = Word("Area"),
               PyStr(<<"A", "<", "B", "R", "/", ">">>)),
      RawField(CHOOSE sh \in FieldShapes : sh.name = Word("GDP"), Absent),
      RawField(CHOOSE sh \in FieldShapes : sh.name = Word("Area"),
               PyStr(<<>>)),
      RawField(CHOOSE sh \in FieldShapes : sh.name = Word("Pop"), None),
      RawField(CHOOSE sh \in FieldShapes : sh.name = Absent, PyInt(5)) }
        \cup NonRecords

FieldLists == UNION { [1..n -> FieldItems] : n \in 0..MaxFields }

Country(slug, d) == MkDict([country_slug |-> slug, data |-> d])

CountryInputs ==
    { Country(Word("aruba"),
              PyDict([metadata |-> PyDict([name |-> Word("Aruba")]),
                      fields |-> PyList(fl)])) : fl \in FieldLists }
        \cup { Country(Word("aruba"), None),
               Country(Word("aruba"), Absent),
               Country(Absent, PyDict([fields |-> None])),
               Country(Word("aruba"), EmptyDict),
               PyList(<<>>), None }

(***************************************************************************)
(* enrich_with_categories, refine_country (category_enricher)              *)
(***************************************************************************)
\* "database_id in category_mapping": the keys of the mapping are texts
InMapping(database_id, mapping) ==
    IsStr(database_id) /\ database_id.s \in DOMAIN mapping

\* the body of the "for field in fields" loop: the enriched copy of fld
enrich_field_KeepOld(fld, mapping) ==
    LET database_id == Get(fld, "database_id", None)
    IN  IF Truthy(database_id) /\ InMapping(database_id, mapping)
        THEN DictSet(fld, "category", mapping[database_id.s])
        ELSE DictSet(fld, "category", Get(fld, "category", None))

enrich_field(fld, mapping) ==
    LET database_id == Get(fld, "database_id", None)
    IN  IF Truthy(database_id) /\ InMapping(database_id, mapping)
        THEN DictSet(fld, "category", mapping[database_id.s])
        ELSE DictSet(fld, "category", None)

\* the loop over fields from item i on; acc is enriched_fields.  An item
\* that is not a dict raises (no copy(), or no get()) inside the try.
RECURSIVE EnrichLoop(_, _, _, _)
EnrichLoop(items, i, acc, mapping) ==
    IF i > Len(items) THEN [raised |-> FALSE, enriched_fields |-> acc]
    ELSE IF ~IsDict(items[i])
         THEN [raised |-> TRUE, enriched_fields |-> acc]
         ELSE EnrichLoop(items, i + 1,
                         Append(acc, enrich_field(items[i], mapping)),
                         mapping)

\* sum(1 for f in enriched_fields if f.get('category'))
RECURSIVE CountWithCategory(_)
CountWithCategory(fs) ==
    IF fs = <<>> THEN 0
    ELSE (IF Truthy(Get(Head(fs), "category", None)) THEN 1 ELSE 0)
             + CountWithCategory(Tail(fs))

\* round(num / den * 100, 1), in tenths (ties go to the even tenth)
RoundPercent(num, den) ==
    LET q == (1000 * num) \div den
        r == (1000 * num) % den
    IN  IF 2 * r < den THEN q
        ELSE IF 2 * r > den THEN q + 1
        ELSE IF q % 2 = 0 THEN q ELSE q + 1

\* what enrich_with_categories gives back: same tells whether the returned
\* object is the argument itself (the except branch returns country_data)
\* or a new dict; enriched_fields is the list its loop built
SameObject(cd, built) ==
    [same |-> TRUE, value |-> cd, enriched_fields |-> built]
NewObject(v, built) ==
    [same |-> FALSE, value |-> v, enriched_fields |-> built]

enrich_with_categories(cd, mapping) ==
    \* every exception inside the try ends in "return country_data"
    IF ~IsDict(cd) THEN SameObject(cd, <<>>)         \* country_data.get
    ELSE
    LET raw_data == Get(cd, "data", EmptyDict)
    IN  IF ~IsDict(raw_data) THEN SameObject(cd, <<>>)   \* raw_data.get
        ELSE
        LET fields == Get(raw_data, "fields", PyList(<<>>))
        IN  IF ~IsList(fields) THEN SameObject(cd, <<>>) \* not iterable
            ELSE
            LET loop == EnrichLoop(fields.l, 1, <<>>, mapping)
                enriched_fields == loop.enriched_fields
                total_fields == Len(enriched_fields)
                fields_with_categories ==
                    CountWithCategory(enriched_fields)
                enriched_data ==
                    DictSet(raw_data, "fields", PyList(enriched_fields))
                stats == PyDict(
                    [total_fields |-> PyInt(total_fields),
                     fields_with_categories |->
                         PyInt(fields_with_categories),
                     category_coverage_percentage |->
                         IF total_fields > 0
                         THEN PyTenths(RoundPercent(
                                  fields_with_categories, total_fields))
                         ELSE PyInt(0)])
            IN  IF loop.raised THEN SameObject(cd, enriched_fields)
                ELSE NewObject(
                       DictSet(DictSet(DictSet(cd, "data", enriched_data),
                                       "enriched_at", Now),
                               "enrichment_stats", stats),
                       enriched_fields)

\* the enricher's refine_country: raised, or the returned object with the
\* processing_duration_seconds member it sets on it
enricher_refine_country(cd, mapping) ==
    IF ~IsDict(cd) THEN Raise("AttributeError")      \* country_data.get
    ELSE LET r == enrich_with_categories(cd, mapping)
         IN  Return([same |-> r.same,
                     value |-> DictSet(r.value,
                                   "processing_duration_seconds", Now),
                     enriched_fields |-> r.enriched_fields])

(***************************************************************************)
(* Inputs of the category enricher                                         *)
(***************************************************************************)
\* mappings as extract_mapping builds them: non-empty text keys
Mappings ==
    { [k \in {} |-> None],
      [k \in { <<"208">> } |-> Word("Economy")],
      [k \in { <<"208">>, <<"301">> } |->
          IF k = <<"208">> THEN Word("Economy") ELSE Word("People")] }

EnricherFieldItems ==
    { MkDict([name |-> Word("GDP"), database_id |-> id, category |-> cat,
              data |-> PyStr(<<"A", "<", "b", "r", ">", "A">>)]) :
          id \in { Word("208"), Word("301"), Word("999"), PyStr(<<>>),
                   None, Absent, PyInt(208) },
          cat \in { Absent, Word("Old"), None } }
        \cup NonRecords

EnricherFieldLists ==
    UNION { [1..n -> EnricherFieldItems] : n \in 0..MaxEnrichFields }

EnricherInputs ==
    { Country(Word("aruba"),
              PyDict([metadata |-> PyDict([name |-> Word("Aruba")]),
                      fields |-> PyList(fl)])) : fl \in EnricherFieldLists }
        \cup { Country(Word("aruba"), None),
               Country(Word("aruba"), Absent),
               Country(Absent, PyDict([fields |-> None])),
               PyList(<<>>), None }

(***************************************************************************)
(* refiners/year_extractor.py: year patterns                               *)
(***************************************************************************)
IsDigit(c) == c \in {"0", "1", "2", "3", "4", "5", "6", "7", "8", "9"}

\* YEAR_PATTERNS, in the order they are tried:
\*   "est"  is r'\((\d{4}) est\.\)'      "bare" is r'\((\d{4})\)'
YEAR_PATTERNS == <<"est", "bare">>

MAX_VALUE_LENGTH == 120
MAX_YEARS_IN_VALUE == 1

NoMatch == [matched |-> FALSE, last |-> 0, group |-> <<>>]

\* what follows the four digits in a pattern
PatternTail(pat) ==
    IF pat = "est" THEN <<" ", "e", "s", "t", ".", ")">> ELSE <<")">>

\* the match of pattern pat that starts at position i of s: its last
\* position and its group 1, or NoMatch
YearMatchAt_NoParens(pat, s, i) ==
    IF pat = "bare"
    THEN IF i + 3 <= Len(s) /\ \A k \in 0..3 : IsDigit(s[i + k])
         THEN [matched |-> TRUE, last |-> i + 3,
               group |-> SubSeq(s, i, i + 3)]
         ELSE NoMatch
    ELSE LET last == i + 4 + Len(PatternTail(pat))
         IN  IF /\ last <= Len(s)
                /\ s[i] = "("
                /\ \A k \in 1..4 : IsDigit(s[i + k])
                /\ SubSeq(s, i + 5, last) = PatternTail(pat)
             THEN [matched |-> TRUE, last |-> last,
                   group |-> SubSeq(s, i + 1, i + 4)]
             ELSE NoMatch

YearMatchAt(pat, s, i) ==
    LET last == i + 4 + Len(PatternTail(pat))
    IN  IF /\ last <= Len(s)
           /\ s[i] = "("
           /\ \A k \in 1..4 : IsDigit(s[i + k])
           /\ SubSeq(s, i + 5, last) = PatternTail(pat)
        THEN [matched |-> TRUE, last |-> last,
              group |-> SubSeq(s, i + 1, i + 4)]
        ELSE NoMatch

\* the positions from i on where pattern pat matches
MatchStarts(pat, s, i) ==
    { j \in i..Len(s) : YearMatchAt(pat, s, j).matched }

\* the scan of the regex engine: the first position from i on where the
\* pattern matches (0 when there is none)
NextMatchStart(pat, s, i) ==
    IF MatchStarts(pat, s, i) = {} THEN 0
    ELSE CHOOSE j \in MatchStarts(pat, s, i) :
             \A k \in MatchStarts(pat, s, i) : j <= k

\* pattern.findall(s): group 1 of the non-overlapping matches, left to
\* right, each scan resuming after the previous match
RECURSIVE YearFindAllFrom(_, _, _)
YearFindAllFrom(pat, s, i) ==
    LET j == NextMatchStart(pat, s, i)
    IN  IF j = 0 THEN <<>>
        ELSE LET m == YearMatchAt(pat, s, j)
             IN  <<m.group>> \o YearFindAllFrom(pat, s, m.last + 1)

year_findall(pat, s) == YearFindAllFrom(pat, s, 1)

\* pattern.search(s): the leftmost match, or NoMatch
YearSearchFrom(pat, s, i) ==
    LET j == NextMatchStart(pat, s, i)
    IN  IF j = 0 THEN NoMatch ELSE YearMatchAt(pat, s, j)

year_search(pat, s) == YearSearchFrom(pat, s, 1)

(***************************************************************************)
(* should_extract_year, extract_year, extract_year_smart                   *)
(***************************************************************************)
\* total_years: the sum of len(pattern.findall(value)) over YEAR_PATTERNS
RECURSIVE TotalYears(_, _)
TotalYears(s, k) ==
    IF k > Len(YEAR_PATTERNS) THEN 0
    ELSE Len(year_findall(YEAR_PATTERNS[k], s)) + TotalYears(s, k + 1)

should_extract_year_LengthExclusive(value, max_length, max_years) ==
    IF ~Truthy(value) \/ ~IsStr(value) THEN FALSE
    ELSE LET total_years == TotalYears(value.s, 1)
         IN  IF total_years > max_years THEN FALSE
             ELSE IF total_years = 1 /\ Len(value.s) >= max_length
                  THEN FALSE
                  ELSE TRUE

should_extract_year(value, max_length, max_years) ==
    IF ~Truthy(value) \/ ~IsStr(value) THEN FALSE
    ELSE LET total_years == TotalYears(value.s, 1)
         IN  IF total_years > max_years THEN FALSE
             ELSE IF total_years = 1 /\ Len(value.s) > max_length
                  THEN FALSE
                  ELSE TRUE

\* the "for pattern in YEAR_PATTERNS" loop of extract_year
RECURSIVE ExtractYearLoop(_, _)
ExtractYearLoop(s, k) ==
    IF k > Len(YEAR_PATTERNS) THEN None
    ELSE LET match == year_search(YEAR_PATTERNS[k], s)
         IN  IF match.matched THEN PyStr(match.group)
             ELSE ExtractYearLoop(s, k + 1)

extract_year(value) ==
    IF ~Truthy(value) \/ ~IsStr(value) THEN None
    ELSE ExtractYearLoop(value.s, 1)

extract_year_smart(value) ==
    IF ~should_extract_year(value, MAX_VALUE_LENGTH, MAX_YEARS_IN_VALUE)
    THEN None
    ELSE extract_year(value)

(***************************************************************************)
(* Inputs of extract_year_smart                                            *)
(***************************************************************************)
EstYear == <<"(", "2", "0", "2", "4", " ", "e", "s", "t", ".", ")">>
BareYear == <<"(", "2", "0", "2", "3", ")">>

\* a text that, followed by EstYear, is exactly MAX_VALUE_LENGTH long
Filler == [k \in 1..(MAX_VALUE_LENGTH - Len(EstYear)) |-> "x"]

YearChunks ==
    { EstYear, BareYear, Filler, <<"A">>,
      <<"(">>, <<"1", "9", "9", "9">>, <<")">>,
      <<" ", "e", "s", "t", ".", ")">> }

YearChunkSeqs == UNION { [1..n -> YearChunks] : n \in 0..MaxYearChunks }

YearTexts == { Concat(cs) : cs \in YearChunkSeqs }

YearInputs == { PyStr(s) : s \in YearTexts } \cup { None, PyInt(2024) }

(***************************************************************************)
(* extract_years_from_values, extract_years_from_key_value_pairs,          *)
(* extract_years_from_key_with_sub_values                                  *)
(***************************************************************************)
\* the body of the loop over value objects: a copy of the entry, with the
\* year member set when extract_year_smart found a year
EnhancedValue_AlwaysYear(value_obj) ==
    DictSet(value_obj, "year",
            extract_year_smart(Get(value_obj, "value", PyStr(<<>>))))

EnhancedValue(value_obj) ==
    LET year == extract_year_smart(Get(value_obj, "value", PyStr(<<>>)))
    IN  IF Truthy(year) THEN DictSet(value_obj, "year", year)
        ELSE value_obj

extract_years_from_values(value_objs) ==
    IF ~Truthy(value_objs) THEN PyList(<<>>)
    ELSE PyList([i \in 1..Len(value_objs.l) |->
                    EnhancedValue(value_objs.l[i])])

extract_years_from_key_value_pairs(key_value_pairs) ==
    IF ~Truthy(key_value_pairs) THEN PyList(<<>>)
    ELSE PyList([i \in 1..Len(key_value_pairs.l) |->
                    EnhancedValue(key_value_pairs.l[i])])

\* the body of the loop over sub_values
EnhancedSubValue(sub_value) ==
    IF IsStr(sub_value)
    THEN LET year == extract_year_smart(sub_value)
         IN  IF Truthy(year)
             THEN PyDict([value |-> sub_value, year |-> year])
             ELSE PyDict([value |-> sub_value])
    ELSE IF IsDict(sub_value)
         THEN EnhancedValue(sub_value)
         ELSE sub_value

extract_years_from_key_with_sub_values(key_with_sub_values) ==
    IF ~Truthy(key_with_sub_values) THEN EmptyDict
    ELSE LET sub_values ==
                 Get(key_with_sub_values, "sub_values", PyList(<<>>))
         IN  IF Truthy(sub_values)
             THEN DictSet(key_with_sub_values, "sub_values",
                      PyList([i \in 1..Len(sub_values.l) |->
                                 EnhancedSubValue(sub_values.l[i])]))
             ELSE key_with_sub_values

(***************************************************************************)
(* Inputs of the per-entry year variants                                   *)
(***************************************************************************)
\* value texts: one year, no year, two years (suppressed by the count gate)
YearValueTexts ==
    { PyStr(<<"A">> \o EstYear), PyStr(<<"A">>),
      PyStr(BareYear \o EstYear) }

OldYear == PyStr(<<"1", "9", "9", "0">>)

ValueObjects ==
    { MkDict([value |-> v, order |-> PyInt(0), year |-> y]) :
          v \in YearValueTexts \cup {Absent}, y \in {Absent, OldYear} }

KeyValueObjects ==
    { MkDict([key |-> Word("GDP"), value |-> v, order |-> PyInt(0),
              year |-> y]) :
          v \in YearValueTexts \cup {Absent}, y \in {Absent, OldYear} }

SubValueItems ==
    { PyStr(<<"A">> \o EstYear), PyStr(<<"A">>),
      PyDict([value |-> PyStr(<<"A">> \o EstYear)]),
      PyDict([value |-> PyStr(<<"A">>), year |-> OldYear]),
      PyInt(5) }

ListsOf(items, max) == UNION { [1..n -> items] : n \in 0..max }

EntryInputs(kind) ==
    CASE kind = "values" ->
             { PyList(l) : l \in ListsOf(ValueObjects, MaxYearEntries) }
                 \cup {None}
      [] kind = "key_value_pairs" ->
             { PyList(l) : l \in ListsOf(KeyValueObjects, MaxYearEntries) }
                 \cup {None}
      [] OTHER ->
             { PyDict([key |-> Word("GDP"), sub_values |-> PyList(l)]) :
                   l \in ListsOf(SubValueItems, MaxYearEntries) }
                 \cup { PyDict([key |-> Word("GDP")]), EmptyDict, None }

EntryKinds == {"values", "key_value_pairs", "key_sub_values"}

(***************************************************************************)
(* analyzers/field_discovery.py: build_field_registry                      *)
(***************************************************************************)
\* len(v) of a str, list or dict
PyLen(v) ==
    CASE v.t = "str"  -> Len(v.s)
      [] v.t = "list" -> Len(v.l)
      [] OTHER        -> Cardinality(DOMAIN v.d)

extract_field_info(field_obj, country_slug) ==
    PyDict([name |-> Get(field_obj, "name", None),
            database_id |-> Get(field_obj, "database_id", None),
            category |-> Get(field_obj, "category", None),
            has_ranking |-> Get(field_obj, "has_ranking", PyBool(FALSE)),
            data_length |->
                PyInt(PyLen(Get(field_obj, "data", PyStr(<<>>))))])

\* the registry entry made at the first occurrence of a field name
NewFieldEntry(field_info) ==
    PyDict([database_id |-> field_info.d.database_id,
            category |-> field_info.d.category,
            countries_with_field |-> PyList(<<>>),
            has_ranking |-> field_info.d.has_ranking,
            data_lengths |-> PyList(<<>>)])

\* field_entry after the two append calls of the loop body
AppendOccurrence(field_entry, field_info, country_slug) ==
    DictSet(DictSet(field_entry, "countries_with_field",
                PyList(Append(field_entry.d.countries_with_field.l,
                              country_slug))),
            "data_lengths",
            PyList(Append(field_entry.d.data_lengths.l,
                          field_info.d.data_length)))

\* the body of "for field in fields": the registry after one field; the
\* registry is a function from the registered field names to their entries
RegisterField_LastWins(registry, field_obj, country_slug) ==
    LET field_name == Get(field_obj, "name", None)
        field_info == extract_field_info(field_obj, country_slug)
        old == IF field_name \in DOMAIN registry
               THEN registry[field_name] ELSE NewFieldEntry(field_info)
        entry == DictSet(DictSet(old, "database_id",
                             field_info.d.database_id),
                         "category", field_info.d.category)
    IN  IF ~Truthy(field_name) THEN registry
        ELSE [k \in DOMAIN registry \cup {field_name} |->
                 IF k = field_name
                 THEN AppendOccurrence(entry, field_info, country_slug)
                 ELSE registry[k]]

RegisterField(registry, field_obj, country_slug) ==
    LET field_name == Get(field_obj, "name", None)
        field_info == extract_field_info(field_obj, country_slug)
        entry == IF field_name \in DOMAIN registry
                 THEN registry[field_name] ELSE NewFieldEntry(field_info)
    IN  IF ~Truthy(field_name) THEN registry
        ELSE [k \in DOMAIN registry \cup {field_name} |->
                 IF k = field_name
                 THEN AppendOccurrence(entry, field_info, country_slug)
                 ELSE registry[k]]

\* "for field in fields"
RECURSIVE RegisterFields(_, _, _, _)
RegisterFields(registry, field_objs, i, country_slug) ==
    IF i > Len(field_objs) THEN registry
    ELSE RegisterFields(RegisterField(registry, field_objs[i], country_slug),
                        field_objs, i + 1, country_slug)

\* data.get('data', {}).get('fields', []) of a wrapped record
CountryFields(country) ==
    Get(Get(country.d.data, "data", EmptyDict), "fields", PyList(<<>>)).l

\* "for country in country_data_list"
RECURSIVE RegistryLoop(_, _, _)
RegistryLoop(registry, countries, c) ==
    IF c > Len(countries) THEN registry
    ELSE RegistryLoop(
             RegisterFields(registry, CountryFields(countries[c]), 1,
                            countries[c].d.slug),
             countries, c + 1)

EmptyRegistry == [k \in {} |-> None]

build_field_registry(countries) == RegistryLoop(EmptyRegistry, countries, 1)

(***************************************************************************)
(* calculate_coverage, generate_summary_statistics, discover_fields        *)
(***************************************************************************)
\* round(coverage_percentage, 1): a float when total_countries > 0, the
\* int 0 of the else branch otherwise
CoveragePercentage(present_count, total_countries) ==
    IF total_countries > 0
    THEN PyTenths(RoundPercent(present_count, total_countries))
    ELSE PyInt(0)

WithCoverage(registry, total_countries) ==
    [name \in DOMAIN registry |->
        DictSet(registry[name], "coverage",
            PyDict([percentage |->
                CoveragePercentage(
                    Len(registry[name].d.countries_with_field.l),
                    total_countries)]))]

calculate_coverage_NoGuard(registry, total_countries) ==
    IF total_countries = 0 /\ DOMAIN registry # {}
    THEN Raise("ZeroDivisionError")
    ELSE Return(WithCoverage(registry, total_countries))

calculate_coverage(registry, total_countries) ==
    Return(WithCoverage(registry, total_countries))

\* a percentage as a number of tenths
Tenths(v) == IF v.t = "float" THEN v.tenths ELSE 10 * v.n

\* the class the distribution loop of generate_summary_statistics puts a
\* coverage percentage in
CoverageClass(coverage) ==
    IF Tenths(coverage) >= 1000 THEN "universal_fields"
    ELSE IF Tenths(coverage) >= 500 THEN "common_fields"
    ELSE "rare_fields"

\* summary['coverage_distribution']
generate_summary_statistics(registry, total_countries) ==
    [class \in {"universal_fields", "common_fields", "rare_fields"} |->
        Cardinality({ name \in DOMAIN registry :
            CoverageClass(registry[name].d.coverage.d.percentage) = class })]

NoSummary ==
    [class \in {"universal_fields", "common_fields", "rare_fields"} |-> 0]

\* discover_fields on the records load_country_files returned: the registry
\* with coverage and the coverage distribution of the catalog
discover_fields(countries) ==
    IF countries = <<>>
    THEN [field_registry |-> EmptyRegistry, summary |-> NoSummary]
    ELSE LET total_countries == Len(countries)
             registry == calculate_coverage(build_field_registry(countries),
                                            total_countries).value
         IN  [field_registry |-> registry,
              summary |-> generate_summary_statistics(registry,
                                                      total_countries)]

(***************************************************************************)
(* Inputs of the catalog builder                                           *)
(***************************************************************************)
CatalogField(name, database_id, category, text) ==
    MkDict([name |-> name, database_id |-> database_id,
            category |-> category, data |-> PyStr(text)])

GdpField ==
    CatalogField(Word("GDP"), Word("208"), Word("Economy"), <<"A">>)
GdpFieldOtherId ==
    CatalogField(Word("GDP"), Word("999"), Word("People"), <<"A", "A">>)
AreaField == CatalogField(Word("Area"), Word("301"), Absent, <<"A">>)
EmptyNameField ==
    CatalogField(PyStr(<<>>), Word("777"), Word("Geography"), <<"A">>)
NullNameField == CatalogField(None, Word("778"), Word("Geography"), <<>>)

\* the field lists of the raw records: a name once, a name twice, two
\* names, nameless fields, no field at all
CatalogFieldLists ==
    { <<GdpField>>, <<GdpField, GdpFieldOtherId>>,
      <<GdpFieldOtherId, AreaField>>, <<AreaField>>,
      <<EmptyNameField, NullNameField>>, <<EmptyNameField, GdpField>>,
      <<>> }

\* file names of the raw directory, in the order they are listed
SlugNames == <<"aruba", "belize", "chad", "denmark", "egypt", "fiji">>

\* what load_country_files makes of the i-th file
LoadedCountry(i, field_objs) ==
    PyDict([slug |-> Word(SlugNames[i]),
            filename |-> PyStr(<<SlugNames[i], ".json">>),
            file_path |-> PyStr(<<"raw/", SlugNames[i], ".json">>),
            data |-> PyDict([data |->
                        PyDict([fields |-> PyList(field_objs)])])])

(***************************************************************************)
(* exporters/xlsx_exporter.py: flatten_to_rows                             *)
(***************************************************************************)
\* the members every row of one field shares
RowBase(country_name, country_slug, field_obj) ==
    [country_name |-> country_name,
     country_slug |-> country_slug,
     field_name |-> field_obj.d.name,
     database_id |-> field_obj.d.database_id,
     category |-> Get(field_obj, "category", Word("Unknown")),
     structure_type |-> field_obj.d.structure_type,
     has_ranking |-> Get(field_obj, "has_ranking", PyBool(FALSE))]

\* the row dict
Row(base, key, value, order) ==
    PyDict(("Country" :> base.country_name)
        @@ ("Country Slug" :> base.country_slug)
        @@ ("Field Name" :> base.field_name)
        @@ ("Database ID" :> base.database_id)
        @@ ("Category" :> base.category)
        @@ ("Structure Type" :> base.structure_type)
        @@ ("Key" :> key)
        @@ ("Value" :> value)
        @@ ("Order" :> order)
        @@ ("Has Ranking" :> base.has_ranking))

\* the rows of a simple field
SimpleRows(base, value_objs) ==
    [i \in 1..Len(value_objs) |->
        Row(base, Word("-"),
            Get(value_objs[i], "value", PyStr(<<>>)),
            Get(value_objs[i], "order", PyInt(0)))]

\* the rows of a key_value_pairs field
KeyValueRows(base, value_objs) ==
    [i \in 1..Len(value_objs) |->
        Row(base, Get(value_objs[i], "key", PyStr(<<>>)),
            Get(value_objs[i], "value", PyStr(<<>>)),
            Get(value_objs[i], "order", PyInt(0)))]

\* "for idx, sub_value in enumerate(sub_values)" for one key
SubValueRows(base, value_obj) ==
    LET key == Get(value_obj, "key", PyStr(<<>>))
        sub_values == Get(value_obj, "sub_values", PyList(<<>>)).l
    IN  [k \in 1..Len(sub_values) |->
            Row(base, key, sub_values[k], PyInt(k - 1))]

\* the rows of a key_sub_values field
KeySubValueRows_GlobalOrder(base, value_objs) ==
    LET rows == Concat([i \in 1..Len(value_objs) |->
                           SubValueRows(base, value_objs[i])])
    IN  [k \in 1..Len(rows) |->
            DictSet(rows[k], "Order", PyInt(k - 1))]

KeySubValueRows(base, value_objs) ==
    Concat([i \in 1..Len(value_objs) |-> SubValueRows(base, value_objs[i])])

\* the body of "for field in fields": the rows one field adds, or the
\* KeyError of a field without name, database_id or structure_type
FieldRows(country_name, country_slug, field_obj) ==
    IF \E k \in {"name", "database_id", "structure_type"} :
           k \notin DOMAIN field_obj.d
    THEN Raise("KeyError")
    ELSE LET base == RowBase(country_name, country_slug, field_obj)
             structure_type == field_obj.d.structure_type
             value_objs == Get(field_obj, "values", PyList(<<>>)).l
         IN  Return(
               CASE structure_type = Word("simple") ->
                        SimpleRows(base, value_objs)
                 [] structure_type = Word("key_value_pairs") ->
                        KeyValueRows(base, value_objs)
                 [] structure_type = Word("key_sub_values") ->
                        KeySubValueRows(base, value_objs)
                 [] OTHER -> <<>>)

RECURSIVE FlattenLoop(_, _, _, _, _)
FlattenLoop(country_name, country_slug, field_objs, i, rows) ==
    IF i > Len(field_objs) THEN Return(rows)
    ELSE LET r == FieldRows(country_name, country_slug, field_objs[i])
         IN  IF r.raised THEN r
             ELSE FlattenLoop(country_name, country_slug, field_objs, i + 1,
                              rows \o r.value)

flatten_to_rows(cd) ==
    IF "country_slug" \notin DOMAIN cd.d THEN Raise("KeyError")
    ELSE IF "data" \notin DOMAIN cd.d THEN Raise("KeyError")
    ELSE IF "metadata" \notin DOMAIN cd.d.data.d THEN Raise("KeyError")
    ELSE IF "name" \notin DOMAIN cd.d.data.d.metadata.d
         THEN Raise("KeyError")
    ELSE IF "fields" \notin DOMAIN cd.d.data.d THEN Raise("KeyError")
    ELSE FlattenLoop(cd.d.data.d.metadata.d.name, cd.d.country_slug,
                     cd.d.data.d.fields.l, 1, <<>>)

(***************************************************************************)
(* Inputs of flatten_to_rows                                               *)
(***************************************************************************)
ValueAt(text, order) ==
    PyDict([value |-> PyStr(<<text>>), order |-> PyInt(order)])

PairAt(key, text, order) ==
    PyDict([key |-> Word(key), value |-> PyStr(<<text>>),
            order |-> PyInt(order)])

KeyWithSubValues(key, sub_values) ==
    PyDict([key |-> Word(key), sub_values |-> PyList(sub_values)])

RefinedField(name, structure_type, value_objs) ==
    MkDict([name |-> Word(name), database_id |-> Word("208"),
            category |-> Word("Economy"),
            structure_type |-> structure_type,
            has_ranking |-> PyBool(FALSE),
            values |-> PyList(value_objs)])

\* fields of the three structure types (two of them with the years the
\* year extractor adds), of a type flatten_to_rows does not know, and
\* without structure_type (what refine_field returns)
FlattenFields ==
    { RefinedField("Area", Word("simple"), <<ValueAt("A", 0)>>),
      RefinedField("Ports", Word("simple"),
                   <<ValueAt("B", 5), ValueAt("A", 0)>>),
      RefinedField("Empty", Word("simple"), <<>>),
      RefinedField("GDP", Word("key_value_pairs"),
                   <<PairAt("k1", "A", 0), PairAt("k2", "B", 1)>>),
      RefinedField("Age", Word("key_sub_values"),
                   <<KeyWithSubValues("k1", <<PyStr(<<"A">>),
                                              PyStr(<<"B">>)>>),
                     KeyWithSubValues("k2", <<PyStr(<<"C">>)>>)>>),
      RefinedField("Debt", Word("key_sub_values"),
                   <<KeyWithSubValues("k3", <<>>),
                     extract_years_from_key_with_sub_values(
                         KeyWithSubValues("k4",
                             <<PyStr(<<"A">> \o EstYear)>>))>>),
      RefinedField("Budget", Word("simple"),
                   extract_years_from_values(
                       PyList(<<PyDict([value |-> PyStr(<<"A">> \o EstYear),
                                        order |-> PyInt(0)])>>)).l),
      RefinedField("Map", Word("table"), <<ValueAt("A", 0)>>),
      RefinedField("Raw", Absent, <<ValueAt("A", 0)>>) }

RefinedCountry(country_slug, metadata, field_objs) ==
    MkDict([country_slug |-> country_slug,
            data |-> MkDict([metadata |-> metadata,
                             fields |-> PyList(field_objs)])])

FlattenInputs ==
    { RefinedCountry(Word("aruba"), PyDict([name |-> Word("Aruba")]), fs) :
          fs \in ListsOf(FlattenFields, MaxFlattenFields) }
        \cup { RefinedCountry(Absent, PyDict([name |-> Word("Aruba")]),
                              <<>>),
               RefinedCountry(Word("aruba"), Absent, <<>>),
               RefinedCountry(Word("aruba"), EmptyDict, <<>>) }

(***************************************************************************)
(* Specification of the value splitter                                     *)
(***************************************************************************)
SplitIdle ==
    /\ data = None
    /\ called = {}
    /\ multi_out = FALSE
    /\ split_out = <<>>

FieldIdle ==
    /\ field = None
    /\ rf_pc = "start"
    /\ rf_out = None
    /\ rf_again = None

CountryIdle ==
    /\ country_data = None
    /\ rc_pc = "start"
    /\ rc_out = None
    /\ rc_valid = None

EnrichIdle ==
    /\ category_mapping = [k \in {} |-> None]
    /\ e_country = None
    /\ e_pc = "start"
    /\ e_out = None
    /\ e_same = FALSE
    /\ e_fields = <<>>

NoStats ==
    [total_countries |-> 0, successful_countries |-> 0,
     failed_countries |-> <<>>, total_fields_processed |-> 0,
     total_marked_fields |-> 0]

BatchIdle ==
    /\ stage = "split"
    /\ country_files = <<>>
    /\ batch_i = 1
    /\ batch_pc = "start"
    /\ batch_error = "none"
    /\ processing_stats = NoStats
    /\ out_files = [k \in {} |-> None]

YearIdle ==
    /\ y_value = None
    /\ y_pc = "start"
    /\ y_out = None
    /\ y_again = None

EntryIdle ==
    /\ ye_kind = "values"
    /\ ye_in = None
    /\ ye_pc = "start"
    /\ ye_out = None

CatalogIdle ==
    /\ country_data_list = <<>>
    /\ catalog_pc = "empty"
    /\ field_registry = EmptyRegistry
    /\ summary = NoSummary
    /\ cov_pc = "start"
    /\ cov_total = 0
    /\ cov_out = EmptyRegistry

FlattenIdle ==
    /\ fl_country = None
    /\ fl_pc = "start"
    /\ fl_rows = <<>>

PipeIdle ==
    /\ pipe_pc = "start"
    /\ steps_to_run = {}
    /\ raw_dir = <<>>

FetchIdle ==
    /\ f_pc = "loop"
    /\ max_retries = 0
    /\ base_delay = 1
    /\ rate_limit_delay = 0
    /\ attempt = 0
    /\ f_last = None
    /\ f_sleeps = <<>>
    /\ f_result = None

RunIdle == PipeIdle /\ FetchIdle

AnalysisIdle == YearIdle /\ EntryIdle /\ CatalogIdle /\ FlattenIdle

SplitInit ==
    /\ data \in SplitterInputs
    /\ called = {}
    /\ multi_out = FALSE
    /\ split_out = <<>>
    /\ FieldIdle
    /\ CountryIdle
    /\ EnrichIdle
    /\ BatchIdle
    /\ AnalysisIdle
    /\ RunIdle

CallIsMultiValued ==
    /\ "is_multi_valued" \notin called
    /\ called' = called \cup {"is_multi_valued"}
    /\ multi_out' = is_multi_valued(data)
    /\ UNCHANGED <<data, split_out, fieldVars, countryVars, enrichVars,
                   batchVars, analysisVars, runVars>>

CallSplitValues ==
    /\ "split_values" \notin called
    /\ called' = called \cup {"split_values"}
    /\ split_out' = split_values(data)
    /\ UNCHANGED <<data, multi_out, fieldVars, countryVars, enrichVars,
                   batchVars, analysisVars, runVars>>

SplitNext == CallIsMultiValued \/ CallSplitValues

SpecSplit == SplitInit /\ [][SplitNext]_vars

(***************************************************************************)
(* Specification of refine_field                                           *)
(***************************************************************************)
FieldInit ==
    /\ field \in FieldInputs
    /\ rf_pc = "start"
    /\ rf_out = None
    /\ rf_again = None
    /\ SplitIdle
    /\ CountryIdle
    /\ EnrichIdle
    /\ BatchIdle
    /\ AnalysisIdle
    /\ RunIdle

CallRefineField ==
    /\ rf_pc = "start"
    /\ LET r == refine_field(field)
       IN  /\ rf_pc' = IF r.raised THEN "raised" ELSE "returned"
           /\ rf_out' = IF r.raised THEN None ELSE r.value
    /\ UNCHANGED <<field, rf_again, splitVars, countryVars, enrichVars,
                   batchVars, analysisVars, runVars>>

\* the splitter run over its own output: refine_field is handed the
\* field record it returned
CallRefineFieldOnOutput ==
    /\ rf_pc = "returned"
    /\ LET r == refine_field(rf_out)
       IN  /\ rf_pc' = IF r.raised THEN "raised again" ELSE "returned again"
           /\ rf_again' = IF r.raised THEN None ELSE r.value
    /\ UNCHANGED <<field, rf_out, splitVars, countryVars, enrichVars,
                   batchVars, analysisVars, runVars>>

FieldNext == CallRefineField \/ CallRefineFieldOnOutput

SpecField == FieldInit /\ [][FieldNext]_vars

(***************************************************************************)
(* Specification of the splitter's refine_country                          *)
(***************************************************************************)
CountryInit ==
    /\ country_data \in CountryInputs
    /\ rc_pc = "start"
    /\ rc_out = None
    /\ rc_valid = None
    /\ SplitIdle
    /\ FieldIdle
    /\ EnrichIdle
    /\ BatchIdle
    /\ AnalysisIdle
    /\ RunIdle

CallRefineCountry ==
    /\ rc_pc = "start"
    /\ LET r == refine_country(country_data)
       IN  /\ rc_pc' = IF r.raised THEN "raised" ELSE "returned"
           /\ rc_out' = IF r.raised THEN None ELSE r.value
    /\ UNCHANGED <<country_data, rc_valid, splitVars, fieldVars, enrichVars,
                   batchVars, analysisVars, runVars>>

\* the record refine_country returned is handed to
\* validate_refined_structure
CallValidateRefinedStructure ==
    /\ rc_pc = "returned"
    /\ rc_valid = None
    /\ rc_valid' = PyBool(validate_refined_structure(rc_out))
    /\ UNCHANGED <<country_data, rc_pc, rc_out, splitVars, fieldVars,
                   enrichVars, batchVars, analysisVars, runVars>>

CountryNext == CallRefineCountry \/ CallValidateRefinedStructure

SpecCountry == CountryInit /\ [][CountryNext]_vars

(***************************************************************************)
(* Specification of the enricher's refine_country                          *)
(***************************************************************************)
EnrichInit ==
    /\ category_mapping \in Mappings
    /\ e_country \in EnricherInputs
    /\ e_pc = "start"
    /\ e_out = None
    /\ e_same = FALSE
    /\ e_fields = <<>>
    /\ SplitIdle
    /\ FieldIdle
    /\ CountryIdle
    /\ BatchIdle
    /\ AnalysisIdle
    /\ RunIdle

CallEnricherRefineCountry ==
    /\ e_pc = "start"
    /\ LET r == enricher_refine_country(e_country, category_mapping)
       IN  IF r.raised
           THEN /\ e_pc' = "raised"
                /\ UNCHANGED <<e_country, e_out, e_same, e_fields>>
           ELSE /\ e_pc' = "returned"
                /\ e_out' = r.value.value
                /\ e_same' = r.value.same
                /\ e_fields' = r.value.enriched_fields
                \* a member set on the returned object is set on the
                \* argument when they are the same object
                /\ e_country' = IF r.value.same THEN r.value.value
                                ELSE e_country
    /\ UNCHANGED <<category_mapping, splitVars, fieldVars, countryVars,
                   batchVars, analysisVars, runVars>>

EnrichNext == CallEnricherRefineCountry

SpecEnrich == EnrichInit /\ [][EnrichNext]_vars

(***************************************************************************)
(* process_all_countries (multi_value_splitter and category_enricher)      *)
(***************************************************************************)
\* the records a batch loads: the top level of each JSON file
BatchRecords ==
    { Country(Word("aruba"),
              PyDict([metadata |-> PyDict([name |-> Word("Aruba")]),
                      fields |-> PyList(<<
                          MkDict([name |-> Word("GDP"),
                                  database_id |-> Word("208"),
                                  data |-> PyStr(<<"A", "<", "b", "r", ">",
                                                   "A">>)]),
                          MkDict([name |-> Word("Area"),
                                  database_id |-> Word("999"),
                                  data |-> PyStr(<<"A">>)])>>)])),
      Country(Word("belize"), None),
      Country(Word("chad"),
              PyDict([metadata |-> EmptyDict,
                      fields |-> PyList(<<Word("oops")>>)])),
      Country(Absent, PyDict([fields |-> PyList(<<>>)])),
      PyList(<<>>) }

CountryFileLists == UNION { [1..n -> BatchRecords] : n \in 0..MaxCountries }

\* processing_stats["failed_countries"].append(country_slug)
StatsFailed(stats, slug) ==
    [stats EXCEPT !.failed_countries = Append(@, slug)]

\* the three "Update statistics" lines after a successful save
StatsSucceeded(stats, nfields, nmarked) ==
    [stats EXCEPT !.successful_countries = @ + 1,
                  !.total_fields_processed = @ + nfields,
                  !.total_marked_fields = @ + nmarked]

\* os.path.join(output_dir, f"{country_slug}.json") and the atomic write
Saved(files, slug, content) ==
    LET fname == Format(slug) \o <<".json">>
    IN  [k \in DOMAIN files \cup {fname} |->
            IF k = fname THEN content ELSE files[k]]

\* the number an int member of a statistics dict holds, 0 when missing
IntOf(d, key) == IF key \in DOMAIN d.d THEN d.d[key].n ELSE 0

BatchInit ==
    /\ stage \in {"split", "enrich"}
    /\ country_files \in CountryFileLists
    /\ category_mapping \in
           { m \in Mappings : Cardinality(DOMAIN m) <= 1 }
    /\ batch_i = 1
    /\ batch_pc = "start"
    /\ batch_error = "none"
    /\ processing_stats = NoStats
    /\ out_files = [k \in {} |-> None]
    /\ e_country = None /\ e_pc = "start" /\ e_out = None
    /\ e_same = FALSE /\ e_fields = <<>>
    /\ SplitIdle
    /\ FieldIdle
    /\ CountryIdle
    /\ AnalysisIdle
    /\ RunIdle

othersUnchanged ==
    UNCHANGED <<splitVars, fieldVars, countryVars, stage, category_mapping,
                e_country, e_pc, e_out, e_same, e_fields, analysisVars, runVars>>

\* the splitter's process_all_countries up to the loop
SplitterStart ==
    /\ stage = "split" /\ batch_pc = "start"
    /\ IF country_files = <<>>
       THEN /\ batch_pc' = "raised"
            /\ batch_error' = "ValueError"
            /\ UNCHANGED processing_stats
       ELSE /\ batch_pc' = "loop"
            /\ processing_stats' =
                   [NoStats EXCEPT !.total_countries = Len(country_files)]
            /\ UNCHANGED batch_error
    /\ UNCHANGED <<country_files, batch_i, out_files>>
    /\ othersUnchanged

\* one pass of the splitter's loop body, its except branch included
SplitterProcess ==
    /\ stage = "split" /\ batch_pc = "loop"
    /\ batch_i <= Len(country_files)
    /\ LET cd == country_files[batch_i]
       IN  IF ~IsDict(cd)
           \* country_data.get raises in the try and again in the handler
           THEN /\ batch_pc' = "raised"
                /\ batch_error' = "AttributeError"
                /\ UNCHANGED <<batch_i, processing_stats, out_files>>
           ELSE
           LET country_slug == Get(cd, "country_slug", Word("unknown"))
               r == refine_country(cd)
           IN  /\ batch_i' = batch_i + 1
               /\ UNCHANGED <<batch_pc, batch_error>>
               /\ IF r.raised
                  THEN /\ processing_stats' =
                              StatsFailed(processing_stats, country_slug)
                       /\ UNCHANGED out_files
                  ELSE \E save_ok \in BOOLEAN :
                         IF save_ok
                         THEN /\ out_files' =
                                     Saved(out_files, country_slug, r.value)
                              /\ processing_stats' = StatsSucceeded(
                                     processing_stats,
                                     IntOf(r.value.d.statistics,
                                           "total_fields"),
                                     IntOf(r.value.d.statistics,
                                           "multi_valued_fields"))
                         ELSE /\ processing_stats' =
                                     StatsFailed(processing_stats,
                                                 country_slug)
                              /\ UNCHANGED out_files
    /\ UNCHANGED country_files
    /\ othersUnchanged

\* the end of the loop: final statistics and return
SplitterFinish ==
    /\ stage = "split" /\ batch_pc = "loop"
    /\ batch_i > Len(country_files)
    /\ batch_pc' = "done"
    /\ UNCHANGED <<country_files, batch_i, batch_error, processing_stats,
                   out_files>>
    /\ othersUnchanged

\* the enricher's process_all_countries up to the loop
EnricherStart ==
    /\ stage = "enrich" /\ batch_pc = "start"
    /\ IF DOMAIN category_mapping = {} \/ country_files = <<>>
       THEN /\ batch_pc' = "raised"
            /\ batch_error' = "ValueError"
            /\ UNCHANGED processing_stats
       ELSE /\ batch_pc' = "loop"
            /\ processing_stats' =
                   [NoStats EXCEPT !.total_countries = Len(country_files)]
            /\ UNCHANGED batch_error
    /\ UNCHANGED <<country_files, batch_i, out_files>>
    /\ othersUnchanged

\* one pass of the enricher's loop body, its except branch included
EnricherProcess ==
    /\ stage = "enrich" /\ batch_pc = "loop"
    /\ batch_i <= Len(country_files)
    /\ LET cd == country_files[batch_i]
       IN  IF ~IsDict(cd)
           \* country_data.get raises in the try and again in the handler
           THEN /\ batch_pc' = "raised"
                /\ batch_error' = "AttributeError"
                /\ UNCHANGED <<batch_i, processing_stats, out_files,
                               country_files>>
           ELSE
           LET country_slug == Get(cd, "country_slug", Word("unknown"))
               r == enricher_refine_country(cd, category_mapping).value
               stats == Get(r.value, "enrichment_stats", EmptyDict)
           IN  /\ batch_i' = batch_i + 1
               /\ UNCHANGED <<batch_pc, batch_error>>
               \* the record of the list is the object refine_country
               \* wrote to when it got its own argument back
               /\ country_files' =
                      IF r.same
                      THEN [country_files EXCEPT ![batch_i] = r.value]
                      ELSE country_files
               /\ \E save_ok \in BOOLEAN :
                     IF save_ok
                     THEN /\ out_files' =
                                 Saved(out_files, country_slug, r.value)
                          /\ processing_stats' = StatsSucceeded(
                                 processing_stats,
                                 IntOf(stats, "total_fields"),
                                 IntOf(stats, "fields_with_categories"))
                     ELSE /\ processing_stats' =
                                 StatsFailed(processing_stats, country_slug)
                          /\ UNCHANGED out_files
    /\ othersUnchanged

EnricherFinish ==
    /\ stage = "enrich" /\ batch_pc = "loop"
    /\ batch_i > Len(country_files)
    /\ batch_pc' = "done"
    /\ UNCHANGED <<country_files, batch_i, batch_error, processing_stats,
                   out_files>>
    /\ othersUnchanged

BatchNext ==
    \/ SplitterStart \/ SplitterProcess \/ SplitterFinish
    \/ EnricherStart \/ EnricherProcess \/ EnricherFinish

SpecBatch == BatchInit /\ [][BatchNext]_vars

(***************************************************************************)
(* Specification of extract_year_smart                                     *)
(***************************************************************************)
YearInit ==
    /\ y_value \in YearInputs
    /\ y_pc = "start"
    /\ y_out = None
    /\ y_again = None
    /\ EntryIdle /\ CatalogIdle /\ FlattenIdle
    /\ SplitIdle
    /\ FieldIdle
    /\ CountryIdle
    /\ EnrichIdle
    /\ BatchIdle
    /\ RunIdle

CallExtractYearSmart ==
    /\ y_pc = "start"
    /\ y_pc' = "called"
    /\ y_out' = extract_year_smart(y_value)
    /\ UNCHANGED <<y_value, y_again, entryVars, catalogVars, flattenVars,
                   splitVars, fieldVars, countryVars, enrichVars, batchVars, runVars>>

\* extract_year_smart applied to the year it has just returned
CallExtractYearSmartOnOutput ==
    /\ y_pc = "called"
    /\ y_out # None
    /\ y_pc' = "again"
    /\ y_again' = extract_year_smart(y_out)
    /\ UNCHANGED <<y_value, y_out, entryVars, catalogVars, flattenVars,
                   splitVars, fieldVars, countryVars, enrichVars, batchVars, runVars>>

YearNext == CallExtractYearSmart \/ CallExtractYearSmartOnOutput

SpecYear == YearInit /\ [][YearNext]_vars

(***************************************************************************)
(* Specification of the per-entry year variants                            *)
(***************************************************************************)
EntryInit ==
    /\ ye_kind \in EntryKinds
    /\ ye_in \in EntryInputs(ye_kind)
    /\ ye_pc = "start"
    /\ ye_out = None
    /\ YearIdle /\ CatalogIdle /\ FlattenIdle
    /\ SplitIdle
    /\ FieldIdle
    /\ CountryIdle
    /\ EnrichIdle
    /\ BatchIdle
    /\ RunIdle

entryOthersUnchanged ==
    UNCHANGED <<ye_kind, yearVars, catalogVars, flattenVars, splitVars,
                fieldVars, countryVars, enrichVars, batchVars, runVars>>

\* the functions read their argument and build new objects (.copy(), a new
\* list): the argument object is left as it was
CallExtractYearsFromValues ==
    /\ ye_kind = "values" /\ ye_pc = "start"
    /\ ye_pc' = "returned"
    /\ ye_out' = extract_years_from_values(ye_in)
    /\ UNCHANGED ye_in
    /\ entryOthersUnchanged

CallExtractYearsFromKeyValuePairs ==
    /\ ye_kind = "key_value_pairs" /\ ye_pc = "start"
    /\ ye_pc' = "returned"
    /\ ye_out' = extract_years_from_key_value_pairs(ye_in)
    /\ UNCHANGED ye_in
    /\ entryOthersUnchanged

CallExtractYearsFromKeyWithSubValues ==
    /\ ye_kind = "key_sub_values" /\ ye_pc = "start"
    /\ ye_pc' = "returned"
    /\ ye_out' = extract_years_from_key_with_sub_values(ye_in)
    /\ UNCHANGED ye_in
    /\ entryOthersUnchanged

EntryNext ==
    \/ CallExtractYearsFromValues
    \/ CallExtractYearsFromKeyValuePairs
    \/ CallExtractYearsFromKeyWithSubValues

SpecEntries == EntryInit /\ [][EntryNext]_vars

(***************************************************************************)
(* Specification of the catalog builder                                    *)
(***************************************************************************)
CatalogInit ==
    /\ CatalogIdle
    /\ YearIdle /\ EntryIdle /\ FlattenIdle
    /\ SplitIdle
    /\ FieldIdle
    /\ CountryIdle
    /\ EnrichIdle
    /\ BatchIdle
    /\ RunIdle

catalogOthersUnchanged ==
    UNCHANGED <<yearVars, entryVars, flattenVars, splitVars, fieldVars,
                countryVars, enrichVars, batchVars, runVars>>

\* one more record is in the raw directory and discover_fields runs on it
DiscoverFields ==
    /\ Len(country_data_list) < MaxRecords
    /\ \E field_objs \in CatalogFieldLists :
           LET countries ==
                   Append(country_data_list,
                          LoadedCountry(Len(country_data_list) + 1,
                                        field_objs))
               catalog == discover_fields(countries)
           IN  /\ country_data_list' = countries
               /\ catalog_pc' = "built"
               /\ field_registry' = catalog.field_registry
               /\ summary' = catalog.summary
    /\ UNCHANGED <<cov_pc, cov_total, cov_out>>
    /\ catalogOthersUnchanged

\* calculate_coverage called with the registry of the records and any
\* total_countries
CallCalculateCoverage ==
    /\ \E total_countries \in 0..MaxRecords :
           LET r == calculate_coverage(
                        build_field_registry(country_data_list),
                        total_countries)
           IN  /\ cov_total' = total_countries
               /\ cov_pc' = IF r.raised THEN "raised" ELSE "returned"
               /\ cov_out' = IF r.raised THEN EmptyRegistry ELSE r.value
    /\ UNCHANGED <<country_data_list, catalog_pc, field_registry, summary>>
    /\ catalogOthersUnchanged

CatalogNext == DiscoverFields \/ CallCalculateCoverage

SpecCatalog == CatalogInit /\ [][CatalogNext]_vars

(***************************************************************************)
(* Specification of flatten_to_rows                                        *)
(***************************************************************************)
FlattenInit ==
    /\ fl_country \in FlattenInputs
    /\ fl_pc = "start"
    /\ fl_rows = <<>>
    /\ YearIdle /\ EntryIdle /\ CatalogIdle
    /\ SplitIdle
    /\ FieldIdle
    /\ CountryIdle
    /\ EnrichIdle
    /\ BatchIdle
    /\ RunIdle

CallFlattenToRows ==
    /\ fl_pc = "start"
    /\ LET r == flatten_to_rows(fl_country)
       IN  /\ fl_pc' = IF r.raised THEN "raised" ELSE "returned"
           /\ fl_rows' = IF r.raised THEN <<>> ELSE r.value
    /\ UNCHANGED <<fl_country, yearVars, entryVars, catalogVars, splitVars,
                   fieldVars, countryVars, enrichVars, batchVars, runVars>>

FlattenNext == CallFlattenToRows

SpecFlatten == FlattenInit /\ [][FlattenNext]_vars


(***************************************************************************)
(* Specification of run_refinement_pipeline (main.py): the two steps run   *)
(* the process_all_countries of the enricher and of the splitter, one      *)
(* after the other, over the directories raw/ and refined/ of a snapshot;  *)
(* out_files is refined/.  The analysis the splitter's run makes after its *)
(* batch only reads the two directories.                                   *)
(***************************************************************************)
\* the files a listing of a directory can give, in any order
Listings(files) ==
    LET n == Cardinality(DOMAIN files)
    IN  { [i \in 1..n |-> files[p[i]]] :
            p \in { q \in [1..n -> DOMAIN files] :
                        \A i, j \in 1..n : i # j => q[i] # q[j] } }

\* mv_input_dir of step 2: the directory the splitter reads
mv_input_dir_AlwaysRaw(steps) == "raw"

mv_input_dir(steps) ==
    IF "categories" \in steps THEN "refined" ELSE "raw"

\* load_country_files(directory)
load_country_files(directory) ==
    IF directory = "raw" THEN { raw_dir } ELSE Listings(out_files)

\* steps_to_run after "Normalize steps"
StepChoices ==
    { {"categories", "multi-value"}, {"categories"}, {"multi-value"} }

\* the file name a record is saved under
FileNameOf(cd) ==
    Format(Get(cd, "country_slug", Word("unknown"))) \o <<".json">>

\* raw/ holds one file per country
RawDirs ==
    { fl \in CountryFileLists :
        /\ fl # <<>>
        /\ \A i, j \in 1..Len(fl) :
              i # j => /\ fl[i] # fl[j]
                       /\ (IsDict(fl[i]) /\ IsDict(fl[j]))
                              => FileNameOf(fl[i]) # FileNameOf(fl[j]) }

\* the mapping discovery wrote for the snapshot
DiscoveredMapping == [k \in { <<"208">> } |-> Word("Economy")]

\* refined/ as an earlier categories-only run over raw/ left it
RECURSIVE EarlierCategoriesRun(_, _, _)
EarlierCategoriesRun(files, i, acc) ==
    IF i > Len(files) THEN acc
    ELSE IF ~IsDict(files[i]) THEN acc
    ELSE EarlierCategoriesRun(files, i + 1,
             Saved(acc, Get(files[i], "country_slug", Word("unknown")),
                   enricher_refine_country(files[i],
                                           DiscoveredMapping).value.value))

NoFiles == [k \in {} |-> None]

PipelineInit ==
    /\ pipe_pc = "start"
    /\ steps_to_run \in StepChoices
    /\ raw_dir \in RawDirs
    /\ category_mapping \in { NoFiles, DiscoveredMapping }
    /\ out_files \in { NoFiles, EarlierCategoriesRun(raw_dir, 1, NoFiles) }
    /\ stage = "split"
    /\ country_files = <<>>
    /\ batch_i = 1
    /\ batch_pc = "start"
    /\ batch_error = "none"
    /\ processing_stats = NoStats
    /\ e_country = None /\ e_pc = "start" /\ e_out = None
    /\ e_same = FALSE /\ e_fields = <<>>
    /\ SplitIdle
    /\ FieldIdle
    /\ CountryIdle
    /\ AnalysisIdle
    /\ FetchIdle

pipeOthersUnchanged ==
    UNCHANGED <<splitVars, fieldVars, countryVars, enrichVars, analysisVars,
                fetchVars, steps_to_run, raw_dir, out_files, batch_error>>

\* Step 1: run_category_enrichment(raw_dir, refined_dir) is entered
StartCategories ==
    /\ pipe_pc = "start"
    /\ "categories" \in steps_to_run
    /\ pipe_pc' = "categories"
    /\ stage' = "enrich"
    /\ country_files' \in load_country_files("raw")
    /\ batch_i' = 1
    /\ batch_pc' = "start"
    /\ processing_stats' = NoStats
    /\ pipeOthersUnchanged

\* Step 2: run_multi_value_splitter(mv_input_dir, refined_dir) is entered,
\* after step 1 returned when step 1 is one of the steps
StartMultiValue ==
    /\ \/ pipe_pc = "start" /\ "categories" \notin steps_to_run
       \/ pipe_pc = "categories" /\ batch_pc = "done"
    /\ "multi-value" \in steps_to_run
    /\ pipe_pc' = "multi-value"
    /\ stage' = "split"
    /\ country_files' \in load_country_files(mv_input_dir(steps_to_run))
    /\ batch_i' = 1
    /\ batch_pc' = "start"
    /\ processing_stats' = NoStats
    /\ pipeOthersUnchanged

\* the last step returned: the pipeline returns its results
PipelineReturn ==
    /\ batch_pc = "done"
    /\ \/ pipe_pc = "multi-value"
       \/ pipe_pc = "categories" /\ "multi-value" \notin steps_to_run
    /\ pipe_pc' = "done"
    /\ UNCHANGED <<stage, country_files, batch_i, batch_pc, processing_stats>>
    /\ pipeOthersUnchanged

\* a step raised: "except Exception ... raise"
PipelineRaise ==
    /\ pipe_pc \in {"categories", "multi-value"}
    /\ batch_pc = "raised"
    /\ pipe_pc' = "raised"
    /\ UNCHANGED <<stage, country_files, batch_i, batch_pc, processing_stats>>
    /\ pipeOthersUnchanged

InStep == pipe_pc \in {"categories", "multi-value"}

PipelineNext ==
    \/ StartCategories \/ StartMultiValue
    \/ PipelineReturn \/ PipelineRaise
    \/ InStep /\ (EnricherStart \/ EnricherProcess \/ EnricherFinish)
    \/ InStep /\ (SplitterStart \/ SplitterProcess \/ SplitterFinish)

SpecPipeline == PipelineInit /\ [][PipelineNext]_vars


(***************************************************************************)
(* scrapers/fetcher.py: fetch_page_data                                    *)
(***************************************************************************)
\* get_retry_delay with a delay that grows by base_delay per attempt
get_retry_delay_Linear(n, delay) == delay * (n + 1)

get_retry_delay(n, delay) == delay * (2 ^ n)

\* validate_json_structure(data)
validate_json_structure(json) ==
    /\ IsDict(json)
    /\ "result" \in DOMAIN json.d
    /\ IsDict(json.d.result)
    /\ "data" \in DOMAIN json.d.result.d
    /\ IsDict(json.d.result.d.data)
    /\ \/ "country" \in DOMAIN json.d.result.d.data.d
       \/ "fields" \in DOMAIN json.d.result.d.data.d

\* an exception: its class and, for an HTTPError, the status code of its
\* response (0 when it has none)
Exc(type, status) == [type |-> type, status |-> status]

\* _classify_error(exception=e)
classify_error(e) ==
    CASE e.type = "Timeout" -> "timeout"
      [] e.type = "ConnectionError" -> "network_error"
      [] e.type = "JSONDecodeError" -> "json_parse_error"
      [] e.type = "HTTPError" ->
             IF e.status = 404 THEN "not_found"
             ELSE IF 500 <= e.status /\ e.status <= 599
                  THEN "server_error"
             ELSE "client_error"
      [] OTHER -> "unknown"

\* the page-data.json documents a response can hold
PageData(key) ==
    PyDict([result |-> PyDict([data |-> MkDict(
        [country |-> IF key = "country" THEN EmptyDict ELSE Absent,
         fields  |-> IF key = "fields" THEN PyList(<<>>) ELSE Absent])])])

JsonDocuments ==
    { PageData("country"), PageData("fields"), PageData("none"),
      PyList(<<>>), EmptyDict, PyDict([result |-> None]),
      PyDict([result |-> PyDict([data |-> PyList(<<>>)])]) }

\* what one attempt can meet: session.fetch returns a text that parses to
\* a document or does not parse, or it raises
Responses ==
    { [kind |-> "json", doc |-> j] : j \in JsonDocuments }
        \cup { [kind |-> "text"] }
        \cup { [kind |-> "raise", exc |-> e] :
                  e \in { Exc("Timeout", 0), Exc("ConnectionError", 0),
                          Exc("HTTPError", 404), Exc("HTTPError", 403),
                          Exc("HTTPError", 500), Exc("HTTPError", 0),
                          \* another RequestException
                          Exc("TooManyRedirects", 0),
                          \* not a RequestException
                          Exc("Exception", 0) } }

Sleep(why, seconds) == [why |-> why, seconds |-> seconds]

FetchInit ==
    /\ f_pc = "loop"
    /\ max_retries \in 0..MaxRetries
    /\ base_delay \in {1, 2}
    /\ rate_limit_delay \in {0, 1}
    /\ attempt = 0
    /\ f_last = None
    /\ f_sleeps = <<>>
    /\ f_result = None
    /\ PipeIdle
    /\ SplitIdle
    /\ FieldIdle
    /\ CountryIdle
    /\ EnrichIdle
    /\ BatchIdle
    /\ AnalysisIdle

\* "return ..." inside the loop, or the loop runs out and the function
\* returns None
FetchReturn(v, slept) ==
    /\ f_pc' = "returned"
    /\ f_result' = v
    /\ f_sleeps' = f_sleeps \o slept
    /\ UNCHANGED attempt

\* "time.sleep(retry_delay); continue" when attempts remain; without
\* them the pass ends, the loop is over and None is returned
RetryOrGiveUp ==
    IF attempt < max_retries
    THEN /\ attempt' = attempt + 1
         /\ f_sleeps' = Append(f_sleeps,
                Sleep("retry", get_retry_delay(attempt, base_delay)))
         /\ UNCHANGED <<f_pc, f_result>>
    ELSE FetchReturn(None, <<>>)

\* one pass of "for attempt in range(max_retries + 1)"
FetchAttempt ==
    /\ f_pc = "loop"
    /\ attempt <= max_retries
    /\ \E res \in Responses :
          /\ f_last' = res
          /\ CASE res.kind = "text" ->
                     \* json.loads raises JSONDecodeError
                     IF classify_error(Exc("JSONDecodeError", 0))
                            = "json_parse_error"
                     THEN FetchReturn(None, <<>>)
                     ELSE RetryOrGiveUp
               [] res.kind = "json" ->
                     IF ~validate_json_structure(res.doc)
                     THEN FetchReturn(None, <<>>)
                     ELSE FetchReturn(res.doc,
                              IF attempt < max_retries /\ rate_limit_delay > 0
                              THEN <<Sleep("rate", rate_limit_delay)>>
                              ELSE <<>>)
               [] res.kind = "raise" /\ res.exc.type # "Exception" ->
                     LET error_class == classify_error(res.exc)
                     IN  IF error_class = "not_found"
                         THEN FetchReturn(None, <<>>)
                         ELSE IF error_class \in
                                 {"timeout", "network_error", "server_error"}
                         THEN RetryOrGiveUp
                         ELSE IF error_class = "client_error"
                         THEN FetchReturn(None, <<>>)
                         ELSE RetryOrGiveUp
               [] OTHER -> RetryOrGiveUp     \* except Exception
    /\ UNCHANGED <<max_retries, base_delay, rate_limit_delay, pipeVars,
                   splitVars, fieldVars, countryVars, enrichVars, batchVars,
                   analysisVars>>

FetchNext == FetchAttempt

SpecFetch == FetchInit /\ [][FetchNext]_vars

\* the loop is sequential code: a pass that can be taken is taken
\* (session.fetch has a timeout and every sleep is finite)
SpecFetchLive == SpecFetch /\ WF_vars(FetchNext)

(***************************************************************************)
(* What "cutting the input at every break marker" means, stated on the     *)
(* text itself rather than by scanning it                                  *)
(***************************************************************************)
\* m is a break marker: "<", b, r, any whitespace, an optional "/", ">"
IsMarker(m) ==
    /\ Len(m) >= 4
    /\ m[1] = "<"
    /\ m[2] \in {"b", "B"}
    /\ m[3] \in {"r", "R"}
    /\ m[Len(m)] = ">"
    /\ \E k \in 3..(Len(m) - 1) :
          /\ \A p \in 4..k : IsSpace(m[p])
          /\ \/ k = Len(m) - 1
             \/ k = Len(m) - 2 /\ m[Len(m) - 1] = "/"

\* the places <<i, j>> where a break marker occupies s[i..j]
MarkerSpans(s) ==
    { sp \in (1..Len(s)) \X (1..Len(s)) :
        sp[1] <= sp[2] /\ IsMarker(SubSeq(s, sp[1], sp[2])) }

\* the k-th marker from the left, k in 1..Cardinality(MarkerSpans(s))
NthSpan(s, k) ==
    CHOOSE sp \in MarkerSpans(s) :
        Cardinality({ o \in MarkerSpans(s) : o[1] < sp[1] }) = k - 1

\* the pieces between the markers: piece k lies between marker k-1 and k
Pieces(s) ==
    LET n == Cardinality(MarkerSpans(s))
        lo(k) == IF k = 1 THEN 1 ELSE NthSpan(s, k - 1)[2] + 1
        hi(k) == IF k = n + 1 THEN Len(s) ELSE NthSpan(s, k)[1] - 1
    IN  [k \in 1..(n + 1) |-> SubSeq(s, lo(k), hi(k))]

\* p without its leading and trailing whitespace
Trimmed(p) ==
    LET ink == { i \in 1..Len(p) : ~IsSpace(p[i]) }
    IN  IF ink = {} THEN <<>>
        ELSE SubSeq(p, CHOOSE i \in ink : \A j \in ink : i <= j,
                       CHOOSE i \in ink : \A j \in ink : i >= j)

NonEmpty(p) == Len(p) > 0

TrimmedPieces(s) == [k \in 1..Len(Pieces(s)) |-> Trimmed(Pieces(s)[k])]

EmptyPieceCount(s) ==
    Cardinality({ k \in 1..Len(Pieces(s)) : TrimmedPieces(s)[k] = <<>> })

(***************************************************************************)
(* Claims about the value splitter (checked under SpecSplit)               *)
(***************************************************************************)
SplitValuesCalled == "split_values" \in called
IsMultiValuedCalled == "is_multi_valued" \in called

\* C1: for every string input, split_values returns exactly the pieces
\* between the break markers, trimmed, the empty ones removed, in source
\* order; so its length is markers + 1 - empty pieces, and no returned
\* fragment is empty or starts or ends with whitespace.
C1_SplitValuesCutsAtEveryMarker ==
    (SplitValuesCalled /\ IsStr(data)) =>
        /\ split_out = SelectSeq(TrimmedPieces(data.s), NonEmpty)
        /\ Len(split_out) = Cardinality(MarkerSpans(data.s)) + 1
                                - EmptyPieceCount(data.s)
        /\ \A k \in 1..Len(split_out) :
              /\ Len(split_out[k]) > 0
              /\ ~IsSpace(split_out[k][1])
              /\ ~IsSpace(split_out[k][Len(split_out[k])])

\* a text with two markers, an empty piece and a surviving fragment
C1_Witness ==
    /\ SplitValuesCalled /\ IsStr(data)
    /\ Cardinality(MarkerSpans(data.s)) >= 2
    /\ EmptyPieceCount(data.s) >= 1
    /\ Len(split_out) >= 1

\* C2 as stated: a string without break markers splits into the single
\* element [s.strip()], also when it is only whitespace; [] is returned
\* only for the empty string or null; is_multi_valued is false.
C2_Original ==
    (SplitValuesCalled /\ IsMultiValuedCalled
        /\ (data = None \/ (IsStr(data) /\ MarkerSpans(data.s) = {}))) =>
        /\ split_out = IF data = None \/ data.s = <<>>
                       THEN <<>> ELSE <<Trimmed(data.s)>>
        /\ multi_out = FALSE

\* C2 (amended): a string without break markers splits into [s.strip()]
\* when s.strip() is not empty, and into [] when s is empty, null or only
\* whitespace; is_multi_valued is false.
C2_NoMarkerSingleFragment ==
    (SplitValuesCalled /\ IsMultiValuedCalled
        /\ (data = None \/ (IsStr(data) /\ MarkerSpans(data.s) = {}))) =>
        /\ split_out = IF data = None \/ Trimmed(data.s) = <<>>
                       THEN <<>> ELSE <<Trimmed(data.s)>>
        /\ multi_out = FALSE

\* a marker-free text whose only fragment lost surrounding whitespace
C2_Witness ==
    /\ SplitValuesCalled /\ IsMultiValuedCalled
    /\ IsStr(data) /\ MarkerSpans(data.s) = {}
    /\ Len(split_out) = 1
    /\ IsSpace(data.s[1]) /\ IsSpace(data.s[Len(data.s)])

\* C3: is_multi_valued is true exactly for a non-empty string that holds
\* at least one break marker (any letter case, whitespace before the
\* optional slash); null, empty and non-string input give false.
C3_IsMultiValuedIffMarker ==
    IsMultiValuedCalled =>
        (multi_out <=> ( /\ IsStr(data)
                         /\ data.s # <<>>
                         /\ MarkerSpans(data.s) # {} ))

\* the only marker of the text is upper case and is detected
C3_Witness ==
    /\ IsMultiValuedCalled /\ IsStr(data) /\ multi_out
    /\ MarkerSpans(data.s) # {}
    /\ \A sp \in MarkerSpans(data.s) : data.s[sp[1] + 1] = "B"

(***************************************************************************)
(* Claims about refine_field (checked under SpecField)                     *)
(***************************************************************************)
FieldReturned == rf_pc = "returned"
SourceData == Get(field, "data", PyStr(<<>>))
OutValues == rf_out.d.values.l
OutMulti == rf_out.d.is_multi_valued.b

\* C4 as stated: in every field refine_field produces, is_multi_valued
\* true implies at least 2 values, and is_multi_valued false implies
\* exactly 1 value, or 0 when the source data was empty.
C4_Original ==
    FieldReturned =>
        /\ OutMulti => Len(OutValues) >= 2
        /\ ~OutMulti => \/ Len(OutValues) = 1
                        \/ Len(OutValues) = 0 /\ ~Truthy(SourceData)

\* the fragments of the raw data, in source order
Fragments(src) ==
    IF IsStr(src) /\ MarkerSpans(src.s) # {}
    THEN LET frs == SelectSeq(TrimmedPieces(src.s), NonEmpty)
         IN  [k \in 1..Len(frs) |-> PyStr(frs[k])]
    ELSE IF src \in { None, PyStr(<<>>), PyInt(0) } THEN <<>> ELSE <<src>>

\* C5: in every field refine_field produces, the i-th entry of values has
\* order i (0-based, contiguous, no gaps or repeats) and holds the i-th
\* fragment of the raw data.
C5_OrderIsPosition ==
    FieldReturned =>
        /\ Len(OutValues) = Len(Fragments(SourceData))
        /\ \A i \in 1..Len(OutValues) :
              /\ OutValues[i].d.order = PyInt(i - 1)
              /\ OutValues[i].d.value = Fragments(SourceData)[i]

\* a field with two different fragments
C5_Witness ==
    /\ FieldReturned
    /\ Len(OutValues) >= 2
    /\ OutValues[1].d.value # OutValues[2].d.value

\* C6 as stated: every field record refine_field produces carries
\* structure_type "simple", the member flatten_to_rows reads from it.
C6_Original ==
    FieldReturned =>
        /\ "structure_type" \in DOMAIN rf_out.d
        /\ rf_out.d.structure_type = Word("simple")

(***************************************************************************)
(* Claims about the splitter's refine_country (checked under SpecCountry)  *)
(***************************************************************************)
\* country_data is a record whose data member holds a list of fields
HasFieldList(cd) ==
    /\ IsDict(cd)
    /\ "data" \in DOMAIN cd.d /\ IsDict(cd.d.data)
    /\ "fields" \in DOMAIN cd.d.data.d /\ IsList(cd.d.data.d.fields)

\* C7 as stated: normalizing a field never raises out of the record: for
\* every raw field item (a record or not) refine_country returns, and
\* every sibling that is a record appears, normalized, in the output.
C7_Original ==
    (rc_pc # "start" /\ HasFieldList(country_data)) =>
        /\ rc_pc = "returned"
        /\ LET items == country_data.d.data.d.fields.l
               outs == rc_out.d.data.d.fields.l
           IN  \A i \in 1..Len(items) :
                 IsDict(items[i]) =>
                     \E j \in 1..Len(outs) :
                         outs[j] = refine_field(items[i]).value

(***************************************************************************)
(* Claims about the category enricher (checked under SpecEnrich)           *)
(***************************************************************************)
\* the category the mapping gives a field: the name mapped to its
\* database_id, or null when it has none or the mapping does not hold it
MappedCategory(fld) ==
    IF /\ "database_id" \in DOMAIN fld.d
       /\ IsStr(fld.d.database_id)
       /\ fld.d.database_id.s \in DOMAIN category_mapping
    THEN category_mapping[fld.d.database_id.s]
    ELSE None

InputFields == e_country.d.data.d.fields.l

\* C9: enrichment gives every field the category mapping[database_id]
\* when the mapping holds its database_id and null when database_id is
\* null, absent or unmapped, and carries all other members over unchanged;
\* the enriched fields are the fields of the returned record.
C9_CategoryFromMapping ==
    (e_pc = "returned") =>
        /\ \A i \in 1..Len(e_fields) :
              /\ e_fields[i].d.category = MappedCategory(InputFields[i])
              /\ DOMAIN e_fields[i].d =
                     DOMAIN InputFields[i].d \cup {"category"}
              /\ \A k \in DOMAIN InputFields[i].d \ {"category"} :
                     e_fields[i].d[k] = InputFields[i].d[k]
        /\ ~e_same => /\ e_out.d.data.d.fields.l = e_fields
                      /\ "fields" \in DOMAIN Get(e_country, "data",
                                                  EmptyDict).d
                             => Len(e_fields) = Len(InputFields)

\* a record with a mapped field that carried another category and a field
\* whose database_id the mapping does not hold
C9_Witness ==
    /\ e_pc = "returned" /\ ~e_same
    /\ \E i, j \in 1..Len(e_fields) :
          /\ Get(InputFields[i], "category", None) = Word("Old")
          /\ e_fields[i].d.category = Word("Economy")
          /\ Get(InputFields[j], "database_id", None) = Word("999")
          /\ e_fields[j].d.category = None

\* C10 as stated: the enricher's refine_country leaves the input record
\* and the mapping as they were before the call, on the success path and
\* on the internal-error path, and returns a new record.
C10_Original ==
    [][ (e_pc = "start" /\ e_pc' = "returned") =>
            /\ e_country' = e_country
            /\ category_mapping' = category_mapping
            /\ ~e_same' ]_vars

(***************************************************************************)
(* Claims about process_all_countries (checked under SpecBatch)            *)
(***************************************************************************)
\* C8 as stated: in a batch run every loaded record is attempted whatever
\* happened to earlier records (also a record that is not a dict): no
\* record makes the run raise, and at the end
\* successful_countries + len(failed_countries) == total_countries.
C8_Original ==
    /\ batch_pc = "raised" => batch_error = "ValueError" /\ batch_i = 1
    /\ batch_pc = "done" =>
          /\ batch_i = Len(country_files) + 1
          /\ processing_stats.successful_countries
                + Len(processing_stats.failed_countries)
                  = processing_stats.total_countries
          /\ processing_stats.total_countries = Len(country_files)

(***************************************************************************)
(* Year patterns stated on the text itself: where a parenthesised year     *)
(* stands, character by character                                          *)
(***************************************************************************)
FourDigitsAfter(s, i) == \A k \in 1..4 : IsDigit(s[i + k])

\* "(YYYY est.)" stands at position i of s
EstAt(s, i) ==
    /\ i + 10 <= Len(s)
    /\ s[i] = "("
    /\ FourDigitsAfter(s, i)
    /\ s[i + 5] = " " /\ s[i + 6] = "e" /\ s[i + 7] = "s"
    /\ s[i + 8] = "t" /\ s[i + 9] = "." /\ s[i + 10] = ")"

\* "(YYYY)" stands at position i of s
BareAt(s, i) ==
    /\ i + 5 <= Len(s)
    /\ s[i] = "("
    /\ FourDigitsAfter(s, i)
    /\ s[i + 5] = ")"

EstOccurrences(s) == { i \in 1..Len(s) : EstAt(s, i) }
BareOccurrences(s) == { i \in 1..Len(s) : BareAt(s, i) }
YearOccurrences(s) == EstOccurrences(s) \cup BareOccurrences(s)

\* the four digits of the occurrence at position i
DigitsAt(s, i) == PyStr(SubSeq(s, i + 1, i + 4))

YearCalled == y_pc # "start"

C12_Original == y_pc = "again" => y_again = y_out

\* C12: extract_year_smart applied to the year it returned (four digits
\* without parentheses) returns null.
C12_OutputIsNotAYearValue == y_pc = "again" => y_again = None

\* a year was extracted and handed back to extract_year_smart
C12_Witness ==
    /\ y_pc = "again"
    /\ y_out = PyStr(<<"2", "0", "2", "4">>)
    /\ y_again = None

\* C13 as stated: for a value of at most 120 characters with exactly one
\* "(YYYY)" match and exactly one "(YYYY est.)" match, extract_year_smart
\* returns the year of the "(YYYY est.)" match.
C13_Original ==
    (/\ YearCalled
     /\ IsStr(y_value)
     /\ Len(y_value.s) <= 120
     /\ Cardinality(BareOccurrences(y_value.s)) = 1
     /\ Cardinality(EstOccurrences(y_value.s)) = 1)
        => \E i \in EstOccurrences(y_value.s) :
               y_out = DigitsAt(y_value.s, i)

(***************************************************************************)
(* Claims about the per-entry year variants (checked under SpecEntries)    *)
(***************************************************************************)
\* the entries of an argument or result of a per-entry variant
EntriesOf(kind, v) ==
    IF kind = "key_sub_values"
    THEN IF IsDict(v) /\ "sub_values" \in DOMAIN v.d
         THEN v.d.sub_values.l ELSE <<>>
    ELSE IF IsList(v) THEN v.l ELSE <<>>

\* an entry as a record: a bare string s stands for {value: s}
AsRecord(entry) ==
    IF IsStr(entry) THEN PyDict([value |-> entry]) ELSE entry

\* the year extract_year_smart finds in the value text of a record
ExtractedYear(rec) == extract_year_smart(Get(rec, "value", PyStr(<<>>)))

\* records a and b have the same members, the year member left aside
SameButYear(a, b) ==
    /\ DOMAIN a.d \ {"year"} = DOMAIN b.d \ {"year"}
    /\ \A k \in DOMAIN a.d \ {"year"} : a.d[k] = b.d[k]

HasYear(rec) == "year" \in DOMAIN rec.d

EntryCallStep == ye_pc = "start" /\ ye_pc' = "returned"

\* the output entry at position i answers the input entry at position i,
\* with YearRule(in, out) saying what its year member is
EntriesAnswer(YearRule(_, _)) ==
    /\ ye_in' = ye_in
    /\ Len(EntriesOf(ye_kind, ye_out')) = Len(EntriesOf(ye_kind, ye_in))
    /\ \A i \in 1..Len(EntriesOf(ye_kind, ye_in)) :
           LET in == AsRecord(EntriesOf(ye_kind, ye_in)[i])
               out == EntriesOf(ye_kind, ye_out')[i]
           IN  IF IsDict(in)
               THEN IsDict(out) /\ SameButYear(in, out) /\ YearRule(in, out)
               ELSE out = in

YearOnlyWhenExtracted(in, out) ==
    HasYear(out) =>
        (ExtractedYear(in) # None /\ out.d.year = ExtractedYear(in))

YearExtractedOrKept(in, out) ==
    IF ExtractedYear(in) # None
    THEN HasYear(out) /\ out.d.year = ExtractedYear(in)
    ELSE /\ HasYear(out) <=> HasYear(in)
         /\ HasYear(in) => out.d.year = in.d.year

\* C14 as stated: the per-entry variants return the entries in the same
\* number and order without modifying the input, a bare-string sub-value
\* as a {value} record, and an output entry carries a year only when
\* extract_year_smart of its value text returned one, also when the input
\* entry already carried a year.
C14_Original == [][EntryCallStep => EntriesAnswer(YearOnlyWhenExtracted)]_vars

\* C14: the per-entry variants return the entries in the same number and
\* order without modifying the input, a bare-string sub-value as a {value}
\* record; an output entry carries the year extract_year_smart found in its
\* value text, and when none was found it carries exactly the year the
\* input entry already had, if any.
C14_EntriesKeepOrderAndOldYear ==
    [][EntryCallStep => EntriesAnswer(YearExtractedOrKept)]_vars

\* a call returned an entry whose text holds no extractable year with the
\* year the input entry carried, next to a bare string turned into a record
C14_Witness ==
    /\ ye_pc = "returned"
    /\ \E i \in 1..Len(EntriesOf(ye_kind, ye_in)) :
           LET in == EntriesOf(ye_kind, ye_in)[i]
           IN  /\ IsDict(in) /\ HasYear(in)
               /\ ExtractedYear(in) = None
               /\ EntriesOf(ye_kind, ye_out)[i].d.year = OldYear
    /\ \E i \in 1..Len(EntriesOf(ye_kind, ye_in)) :
           /\ IsStr(EntriesOf(ye_kind, ye_in)[i])
           /\ IsDict(EntriesOf(ye_kind, ye_out)[i])

(***************************************************************************)
(* The records of a catalog, stated on the records themselves              *)
(***************************************************************************)
\* the field objects of the i-th record, in their order
FieldsIn(countries, i) == countries[i].d.data.d.data.d.fields.l
FieldsOfRecord(i) == FieldsIn(country_data_list, i)

\* the name a field object carries (None when it has no name member)
NameOf(field_obj) == Get(field_obj, "name", None)

\* the i-th record of countries contains a field called name
ContainsIn(countries, i, name) ==
    \E j \in 1..Len(FieldsIn(countries, i)) :
        NameOf(FieldsIn(countries, i)[j]) = name

RecordContains(i, name) == ContainsIn(country_data_list, i, name)

RecordsContaining(name) ==
    { i \in 1..Len(country_data_list) : RecordContains(i, name) }

\* every field object of every record, in the order the records are read
AllFieldObjects ==
    Concat([i \in 1..Len(country_data_list) |-> FieldsOfRecord(i)])

OccurrencesOf(name) ==
    { k \in 1..Len(AllFieldObjects) : NameOf(AllFieldObjects[k]) = name }

FirstOccurrenceOf(name) ==
    AllFieldObjects[CHOOSE k \in OccurrencesOf(name) :
                        \A h \in OccurrencesOf(name) : k <= h]

\* the names that are neither missing nor empty
ProperNames ==
    { NameOf(AllFieldObjects[k]) : k \in 1..Len(AllFieldObjects) }
        \ { None, PyStr(<<>>) }

\* count and coverage (in tenths of a percent) of a registered field
CountOf(registry, name) == Len(registry[name].d.countries_with_field.l)
CoverageOf(registry, name) ==
    Tenths(registry[name].d.coverage.d.percentage)

CatalogBuilt == catalog_pc = "built"

(***************************************************************************)
(* Claims about the catalog builder (checked under SpecCatalog)            *)
(***************************************************************************)
\* C15 as stated: in every catalog each field's count is the number of
\* records that contain the field name at all (a record counts once even
\* if the name occurs in it more than once), and its coverage percentage
\* lies in [0, 100].
C15_Original ==
    CatalogBuilt =>
        \A name \in DOMAIN field_registry :
            /\ CountOf(field_registry, name)
                   = Cardinality(RecordsContaining(name))
            /\ CoverageOf(field_registry, name) >= 0
            /\ CoverageOf(field_registry, name) <= 1000

\* C16: with total_countries = 0 calculate_coverage returns, without a
\* division error, a coverage of 0 for every field of the registry.
C16_ZeroTotalGivesZeroCoverage ==
    (cov_pc # "start" /\ cov_total = 0) =>
        /\ cov_pc = "returned"
        /\ \A name \in DOMAIN cov_out : CoverageOf(cov_out, name) = 0

\* calculate_coverage was called with total 0 on a registry that has
\* fields with a positive count
C16_Witness ==
    /\ cov_pc = "returned"
    /\ cov_total = 0
    /\ \E name \in DOMAIN cov_out :
           /\ CountOf(cov_out, name) >= 2
           /\ CoverageOf(cov_out, name) = 0

\* C17: a registry entry has the database_id and category of the first
\* occurrence of its field name, its count is the number of all
\* occurrences, and fields with an empty or missing name are not registered.
C17_FirstWriteWins ==
    CatalogBuilt =>
        /\ DOMAIN field_registry = ProperNames
        /\ \A name \in DOMAIN field_registry :
               /\ field_registry[name].d.database_id
                      = Get(FirstOccurrenceOf(name), "database_id", None)
               /\ field_registry[name].d.category
                      = Get(FirstOccurrenceOf(name), "category", None)
               /\ CountOf(field_registry, name)
                      = Cardinality(OccurrencesOf(name))

\* GDP was registered from an occurrence with database_id 208, occurred
\* again with database_id 999, and a nameless field was met
C17_Witness ==
    /\ CatalogBuilt
    /\ Word("GDP") \in DOMAIN field_registry
    /\ field_registry[Word("GDP")].d.database_id = Word("208")
    /\ \E k \in OccurrencesOf(Word("GDP")) :
           AllFieldObjects[k].d.database_id = Word("999")
    /\ OccurrencesOf(PyStr(<<>>)) # {}
    /\ CountOf(field_registry, Word("GDP")) >= 2

\* C18 as stated: every catalog field is counted in exactly one class,
\* universal iff its coverage is 100% (it occurs in every record), common
\* iff 50% <= coverage < 100%, rare iff coverage < 50%; the class counts
\* sum to the number of distinct fields.
C18_Original ==
    CatalogBuilt =>
        LET names == DOMAIN field_registry
            universal == { n \in names :
                             CoverageOf(field_registry, n) = 1000 }
            common == { n \in names :
                          /\ CoverageOf(field_registry, n) >= 500
                          /\ CoverageOf(field_registry, n) < 1000 }
            rare == { n \in names : CoverageOf(field_registry, n) < 500 }
        IN  /\ summary["universal_fields"] = Cardinality(universal)
            /\ summary["common_fields"] = Cardinality(common)
            /\ summary["rare_fields"] = Cardinality(rare)
            /\ summary["universal_fields"] + summary["common_fields"]
                   + summary["rare_fields"] = Cardinality(names)
            /\ \A n \in universal :
                   RecordsContaining(n) = 1..Len(country_data_list)

\* the coverage a catalog gives a field name, 0 when it has no entry
CoverageIn(registry, name) ==
    IF name \in DOMAIN registry THEN CoverageOf(registry, name) ELSE 0

\* C19 as stated: rebuilding the catalog after appending one more record
\* that contains field X gives X a coverage that is not lower than before.
C19_Original ==
    [][(catalog_pc' = "built"
            /\ Len(country_data_list') = Len(country_data_list) + 1)
        => \A name \in DOMAIN field_registry' :
               ContainsIn(country_data_list', Len(country_data_list'),
                          name) =>
                   CoverageIn(field_registry', name)
                       >= CoverageIn(field_registry, name)]_vars

(***************************************************************************)
(* Claims about flatten_to_rows (checked under SpecFlatten)                *)
(***************************************************************************)
\* the fields of the record handed to flatten_to_rows, and what they hold
FlattenedFields == fl_country.d.data.d.fields.l
StructureTypeOf(field_obj) == Get(field_obj, "structure_type", None)
ValuesOf(field_obj) == Get(field_obj, "values", PyList(<<>>)).l
SubValuesOf(value_obj) == Get(value_obj, "sub_values", PyList(<<>>)).l

\* the number of sub-values of the keys before the a-th key of a field
RECURSIVE SubValuesBefore(_, _)
SubValuesBefore(field_obj, a) ==
    IF a <= 1 THEN 0
    ELSE SubValuesBefore(field_obj, a - 1)
             + Len(SubValuesOf(ValuesOf(field_obj)[a - 1]))

\* the values, pairs or sub-values a field of one of the three structure
\* types holds (a field of another type holds none of them)
UnitCount(field_obj) ==
    CASE StructureTypeOf(field_obj) \in
             {Word("simple"), Word("key_value_pairs")} ->
                 Len(ValuesOf(field_obj))
      [] StructureTypeOf(field_obj) = Word("key_sub_values") ->
             SubValuesBefore(field_obj, Len(ValuesOf(field_obj)) + 1)
      [] OTHER -> 0

\* the number of rows that stand before the rows of the i-th field
RECURSIVE RowsBefore(_)
RowsBefore(i) ==
    IF i <= 1 THEN 0
    ELSE RowsBefore(i - 1) + UnitCount(FlattenedFields[i - 1])

\* the k-th row of the i-th field
RowOf(i, k) == fl_rows[RowsBefore(i) + k]

\* C20: flatten_to_rows gives, for a simple field, one row per value with
\* Key "-" and Order the value's order; for a key_value_pairs field, one
\* row per pair with Key the pair's key; for a key_sub_values field, one
\* row per sub-value with Key the outer key and Order the sub-value's
\* 0-based position within its own key; the number of rows is the number
\* of values, pairs and sub-values of the record's fields of these types.
C20_RowsPerStructureType ==
    fl_pc = "returned" =>
        /\ Len(fl_rows) = RowsBefore(Len(FlattenedFields) + 1)
        /\ \A i \in 1..Len(FlattenedFields) :
               LET f == FlattenedFields[i]
               IN  /\ \A k \in 1..UnitCount(f) :
                          RowOf(i, k).d["Field Name"] = f.d.name
                   /\ StructureTypeOf(f) = Word("simple") =>
                          \A k \in 1..Len(ValuesOf(f)) :
                              /\ RowOf(i, k).d["Key"] = Word("-")
                              /\ RowOf(i, k).d["Order"]
                                     = ValuesOf(f)[k].d.order
                   /\ StructureTypeOf(f) = Word("key_value_pairs") =>
                          \A k \in 1..Len(ValuesOf(f)) :
                              RowOf(i, k).d["Key"] = ValuesOf(f)[k].d.key
                   /\ StructureTypeOf(f) = Word("key_sub_values") =>
                          \A a \in 1..Len(ValuesOf(f)) :
                              \A b \in 1..Len(SubValuesOf(ValuesOf(f)[a])) :
                                  LET row == RowOf(i, SubValuesBefore(f, a) + b)
                                  IN  /\ row.d["Key"] = ValuesOf(f)[a].d.key
                                      /\ row.d["Order"] = PyInt(b - 1)

\* a record with a simple field of two values and a key_sub_values field
\* of two keys was flattened to five rows, the sub-value of the second key
\* at Order 0
C20_Witness ==
    /\ fl_pc = "returned"
    /\ Len(fl_rows) = 5
    /\ \E k \in 1..Len(fl_rows) :
           /\ fl_rows[k].d["Key"] = Word("-")
           /\ fl_rows[k].d["Order"] = PyInt(5)
    /\ \E k \in 1..Len(fl_rows) :
           /\ fl_rows[k].d["Key"] = Word("k2")
           /\ fl_rows[k].d["Order"] = PyInt(0)

\* the values a field holds, in their sequence: the sub-values of all keys
\* for a key_sub_values field, the value members of its entries otherwise
RowValuesOf(field_obj) ==
    IF StructureTypeOf(field_obj) = Word("key_sub_values")
    THEN Concat([a \in 1..Len(ValuesOf(field_obj)) |->
                    SubValuesOf(ValuesOf(field_obj)[a])])
    ELSE [k \in 1..Len(ValuesOf(field_obj)) |->
             Get(ValuesOf(field_obj)[k], "value", PyStr(<<>>))]

\* field name and value of every value of the record, fields in their
\* sequence and values in theirs
SourceSequence ==
    Concat([i \in 1..Len(FlattenedFields) |->
               [k \in 1..Len(RowValuesOf(FlattenedFields[i])) |->
                   <<FlattenedFields[i].d.name,
                     RowValuesOf(FlattenedFields[i])[k]>>]])

\* C21 as stated: the rows of flatten_to_rows are the values of the record
\* in source order, fields in their sequence and values within a field in
\* theirs, with no field or value omitted, whatever the structure_type of
\* the field.
C21_Original ==
    fl_pc = "returned" =>
        [k \in 1..Len(fl_rows) |->
            <<fl_rows[k].d["Field Name"], fl_rows[k].d["Value"]>>]
                = SourceSequence

\* the rows of the i-th field
RowsOfField(i) ==
    [k \in 1..UnitCount(FlattenedFields[i]) |-> RowOf(i, k)]

\* re-aggregation of rows into value entries: Value and Order of each row
\* in row sequence, and the year where the row carries one
Reaggregated(rows) ==
    [k \in 1..Len(rows) |->
        MkDict([value |-> rows[k].d["Value"],
                order |-> rows[k].d["Order"],
                year |-> Get(rows[k], "Year", Absent)])]

\* C22 as stated: for every simple field, re-aggregating the rows it was
\* flattened to gives back the field's values list, entry for entry and in
\* the same order.
C22_Original ==
    fl_pc = "returned" =>
        \A i \in 1..Len(FlattenedFields) :
            StructureTypeOf(FlattenedFields[i]) = Word("simple") =>
                Reaggregated(RowsOfField(i)) = ValuesOf(FlattenedFields[i])

\* C28 as stated: after extract_years_from_key_with_sub_values has made
\* each sub-value a {value, year?} record, every row of a key_sub_values
\* field has the sub-value's text as Value, never the record.
C28_Original ==
    fl_pc = "returned" =>
        \A i \in 1..Len(FlattenedFields) :
            StructureTypeOf(FlattenedFields[i]) = Word("key_sub_values") =>
                \A k \in 1..UnitCount(FlattenedFields[i]) :
                    LET sub_value == RowValuesOf(FlattenedFields[i])[k]
                    IN  IsDict(sub_value) =>
                            RowOf(i, k).d["Value"] = sub_value.d.value

(***************************************************************************)
(* Claims about refine_field applied again (checked under SpecField)       *)
(***************************************************************************)
FieldReturnedAgain == rf_pc = "returned again"

\* C23 as stated: refine_field applied to its own output yields a field
\* with the same values, is_multi_valued and metadata: re-running the
\* splitter over refined records neither changes nor loses values.
C23_Original ==
    (rf_pc \in {"returned again", "raised again"}) =>
        /\ FieldReturnedAgain
        /\ rf_again = rf_out

FieldReturnedOnce == rf_pc \in {"returned", "returned again"}
CopiedMembers == {"name", "database_id", "subfields", "has_ranking"}

\* C24: refine_field copies the raw field's name, database_id, subfields
\* and has_ranking into its output unchanged, and the call leaves the raw
\* field as it was.
C24_CopiesMetadata ==
    [][(rf_pc = "start" /\ rf_pc' = "returned") =>
          /\ field' = field
          /\ \A key \in CopiedMembers :
                /\ key \in DOMAIN rf_out'.d
                /\ key \in DOMAIN field.d => rf_out'.d[key] = field.d[key]]_vars

\* a raw field with a database_id, a non-empty subfields list and
\* has_ranking true has been normalized
C24_Witness ==
    /\ FieldReturned
    /\ CopiedMembers \subseteq DOMAIN field.d
    /\ IsStr(field.d.database_id)
    /\ field.d.subfields.l # <<>>
    /\ field.d.has_ranking = PyBool(TRUE)
    /\ rf_out.d.subfields = field.d.subfields

\* C25 as stated: the category of every field refine_field produces is
\* null, whether or not the raw field carries a category.
C25_Original ==
    FieldReturned => rf_out.d.category = None

\* C25, amended: the category of a field refine_field produces is the raw
\* field's category copied through, and the empty string when the raw
\* field has no category member.
C25_CategoryCopiedThrough ==
    FieldReturned =>
        rf_out.d.category = IF "category" \in DOMAIN field.d
                            THEN field.d.category
                            ELSE PyStr(<<>>)

\* a raw field carrying a category has been normalized
C25_Witness ==
    /\ FieldReturned
    /\ "category" \in DOMAIN field.d
    /\ IsStr(field.d.category) /\ field.d.category.s # <<>>
    /\ rf_out.d.category = field.d.category

(***************************************************************************)
(* Claims about validate_refined_structure (checked under SpecCountry)     *)
(***************************************************************************)
Validated == rc_valid # None

\* the raw fields and the normalized fields of the record
RawFieldsOf(cd) == IF HasFieldList(cd) THEN cd.d.data.d.fields.l ELSE <<>>
RefinedFieldsOf(rd) == rd.d.data.d.fields.l

\* the raw field has no data: the member is missing, null or empty
HasNoData(fld) == Get(fld, "data", PyStr(<<>>)) \in { None, PyStr(<<>>) }

TooFewValues(fld) ==
    fld.d.is_multi_valued = PyBool(TRUE) /\ Len(fld.d.values.l) < 2

\* C27: a raw field with empty or null data is normalized to
\* is_multi_valued false with zero values, and validate_refined_structure
\* answers False for every record refine_country returns that holds such a
\* field, as it does for a record holding a multi-valued field with fewer
\* than 2 values.
C27_EmptyDataFailsValidation ==
    Validated =>
        /\ Len(RefinedFieldsOf(rc_out)) = Len(RawFieldsOf(country_data))
        /\ \A i \in 1..Len(RawFieldsOf(country_data)) :
              HasNoData(RawFieldsOf(country_data)[i]) =>
                  /\ RefinedFieldsOf(rc_out)[i].d.is_multi_valued
                         = PyBool(FALSE)
                  /\ RefinedFieldsOf(rc_out)[i].d.values = PyList(<<>>)
                  /\ rc_valid = PyBool(FALSE)
        /\ \A j \in 1..Len(RefinedFieldsOf(rc_out)) :
              TooFewValues(RefinedFieldsOf(rc_out)[j]) =>
                  rc_valid = PyBool(FALSE)

\* a returned record whose only defect is one field with empty data has
\* been validated
C27_Witness ==
    /\ Validated
    /\ rc_valid = PyBool(FALSE)
    /\ \E i \in 1..Len(RawFieldsOf(country_data)) :
          /\ HasNoData(RawFieldsOf(country_data)[i])
          /\ \A j \in 1..Len(RefinedFieldsOf(rc_out)) :
                j # i => FieldValid(RefinedFieldsOf(rc_out)[j])
    /\ Len(RawFieldsOf(country_data)) >= 2

(***************************************************************************)
(* Claims about the enricher's batch run (checked under SpecBatch)         *)
(***************************************************************************)
EnricherRun == stage = "enrich" /\ country_files # <<>>

\* C26 as stated: an enrichment run over the loaded records is aborted by
\* an error only when the category mapping is empty or missing, and then
\* process_all_countries raises before any record is enriched or any
\* output file is written.
C26_Original ==
    EnricherRun =>
        /\ batch_pc = "raised" => DOMAIN category_mapping = {}
        /\ (DOMAIN category_mapping = {} /\ batch_pc # "start") =>
              /\ batch_pc = "raised"
              /\ batch_i = 1
              /\ processing_stats = NoStats
              /\ DOMAIN out_files = {}

(***************************************************************************)
(* Claims about run_refinement_pipeline (checked under SpecPipeline)       *)
(***************************************************************************)
BothSteps == steps_to_run = {"categories", "multi-value"}
MultiValueAlone == steps_to_run = {"multi-value"}

\* the record the splitting step wrote: it carries the splitter's
\* statistics
SplitOutput(rec) == IsDict(rec) /\ "statistics" \in DOMAIN rec.d

\* the raw record of the file name fname
RawRecordOf(fname) ==
    CHOOSE cd \in { raw_dir[i] : i \in 1..Len(raw_dir) } :
        IsDict(cd) /\ FileNameOf(cd) = fname

\* the fields of the final record of fname are the raw fields, in order,
\* each with a values array and the category category_of gives it
FieldsKeep(fname, category_of(_)) ==
    LET outs == out_files[fname].d.data.d.fields.l
        raws == RawRecordOf(fname).d.data.d.fields.l
    IN  /\ Len(outs) = Len(raws)
        /\ \A i \in 1..Len(outs) :
              /\ "values" \in DOMAIN outs[i].d
              /\ outs[i].d.name = raws[i].d.name
              /\ outs[i].d.category = category_of(raws[i])

RawCategory(fld) == Get(fld, "category", PyStr(<<>>))

\* enrichment is over when splitting starts, and splitting is handed the
\* files of refined/
SplitAfterEnrichment ==
    (BothSteps /\ stage = "enrich" /\ stage' = "split") =>
        /\ batch_pc = "done"
        /\ batch_i = Len(country_files) + 1
        /\ country_files' \in Listings(out_files)

\* the field items of a file of refined/
FieldItemsOf(rec) == IF HasFieldList(rec) THEN rec.d.data.d.fields.l ELSE <<>>

RetryableOutcome(res) ==
    /\ res.kind = "raise"
    /\ \/ res.exc.type \in {"Timeout", "ConnectionError"}
       \/ res.exc.type = "HTTPError" /\ res.exc.status \in 500..599
       \/ res.exc.type \notin {"Timeout", "ConnectionError", "HTTPError"}

\* the attempt fetched a document of the expected structure
SuccessOutcome(res) ==
    /\ res.kind = "json"
    /\ res.doc \in { PageData("country"), PageData("fields") }

RetrySleeps == SelectSeq(f_sleeps, LAMBDA sl : sl.why = "retry")

\* one pass of the loop: a further attempt follows exactly when the
\* outcome can be retried and attempts remain, after a sleep of
\* base_delay * 2^attempt; otherwise the call ends on this attempt, with
\* the document on success and None on failure
AttemptStep ==
    (f_pc = "loop" /\ (attempt' # attempt \/ f_pc' # f_pc)) =>
        IF RetryableOutcome(f_last') /\ attempt < max_retries
        THEN /\ f_pc' = "loop"
             /\ attempt' = attempt + 1
             /\ f_sleeps' = Append(f_sleeps,
                    Sleep("retry", base_delay * 2 ^ attempt))
        ELSE /\ f_pc' = "returned"
             /\ attempt' = attempt
             /\ f_result' = IF SuccessOutcome(f_last')
                            THEN f_last'.doc ELSE None
             /\ RetrySleeps' = RetrySleeps

\* C30: fetch_page_data ends after at most max_retries + 1 attempts
\* whatever the attempts meet: it retries, after base_delay * 2^attempt
\* seconds, only after a timeout, network error, server error or unknown
\* error while attempts remain; a success, a 404, another client error, a
\* JSON parse error or an invalid structure ends the call on that attempt;
\* with all attempts used up it returns None.
C30_FetchTerminates ==
    /\ [][AttemptStep]_vars
    /\ [](attempt <= max_retries)
    /\ [](f_pc = "returned" /\ ~SuccessOutcome(f_last) => f_result = None)
    /\ <>(f_pc = "returned")

\* every attempt was used up on retryable outcomes
C30_Witness ==
    /\ f_pc = "returned"
    /\ max_retries = MaxRetries
    /\ attempt = max_retries
    /\ RetryableOutcome(f_last)
    /\ Len(RetrySleeps) = max_retries
    /\ f_result = None

====
